---- MODULE Spec2Model ----
(***************************************************************************)
(* The rules engine of the card game (src/src/game/gameLogic.ts) and its   *)
(* card catalog (cards.ts, src/unnamed/part_002) as a state machine.       *)
(*                                                                         *)
(* Every exported operation of the engine is one action.  An operation is  *)
(* written as an operator from the game state (a record with the fields of *)
(* GameState) to the set of its possible outcomes, each outcome being the  *)
(* state the call leaves behind and whether it returned (ok) or threw.     *)
(* The engine mutates the state in place, so a call that throws leaves     *)
(* behind whatever it had already changed: the outcome of a throwing call  *)
(* carries that partly changed state.                                      *)
(*                                                                         *)
(* Card ids are strings (uuids in the code); participant ids are the       *)
(* participants' positions 1..n in state.players (uuids in the code).      *)
(* undefined / null become "none" (colors, card ids), 0 (participant ids,  *)
(* amounts) and Null (the pending action).                                 *)
(***************************************************************************)
EXTENDS Integers, Sequences, FiniteSets, TLC

(***************************************************************************)
(* cards.ts                                                                *)
(***************************************************************************)
Colors ==
  {"brown", "lightBlue", "pink", "orange", "red", "yellow", "green",
   "darkBlue", "railroad", "utility"}

PROPERTY_SET_REQUIREMENTS(color) ==
  CASE color = "brown" -> 2
    [] color = "lightBlue" -> 3
    [] color = "pink" -> 3
    [] color = "orange" -> 3
    [] color = "red" -> 3
    [] color = "yellow" -> 3
    [] color = "green" -> 3
    [] color = "darkBlue" -> 2
    [] color = "railroad" -> 4
    [] color = "utility" -> 2

RENT_VALUES(color) ==
  CASE color = "brown" -> <<1, 2>>
    [] color = "lightBlue" -> <<1, 2, 3>>
    [] color = "pink" -> <<1, 2, 4>>
    [] color = "orange" -> <<1, 3, 5>>
    [] color = "red" -> <<2, 3, 6>>
    [] color = "yellow" -> <<2, 4, 6>>
    [] color = "green" -> <<2, 4, 7>>
    [] color = "darkBlue" -> <<3, 8>>
    [] color = "railroad" -> <<1, 2, 3, 4>>
    [] color = "utility" -> <<1, 2>>

createPropertyCard(color, value, isWildcard, wildcardColors) ==
  [type |-> "property", value |-> value, color |-> color,
   isWildcard |-> isWildcard, wildcardColors |-> wildcardColors,
   action |-> "none", colors |-> {}, isWildRent |-> FALSE]

createMoneyCard(value) ==
  [type |-> "money", value |-> value, color |-> "none",
   isWildcard |-> FALSE, wildcardColors |-> {},
   action |-> "none", colors |-> {}, isWildRent |-> FALSE]

createActionCard(action, value) ==
  [type |-> "action", value |-> value, color |-> "none",
   isWildcard |-> FALSE, wildcardColors |-> {},
   action |-> action, colors |-> {}, isWildRent |-> FALSE]

createRentCard(colors, value, isWildRent) ==
  [type |-> "rent", value |-> value, color |-> "none",
   isWildcard |-> FALSE, wildcardColors |-> {},
   action |-> "none", colors |-> colors, isWildRent |-> isWildRent]

(* The cards of createDeck that the model plays with, by id.  Each entry   *)
(* is one deck.push(...) of createDeck with the arguments it has there.    *)
Card ==
  [b1 |-> createPropertyCard("brown", 1, FALSE, {}),
   b2 |-> createPropertyCard("brown", 1, FALSE, {}),
   l1 |-> createPropertyCard("lightBlue", 1, FALSE, {}),
   l2 |-> createPropertyCard("lightBlue", 1, FALSE, {}),
   l3 |-> createPropertyCard("lightBlue", 1, FALSE, {}),
   d1 |-> createPropertyCard("darkBlue", 4, FALSE, {}),
   d2 |-> createPropertyCard("darkBlue", 4, FALSE, {}),
   u1 |-> createPropertyCard("utility", 2, FALSE, {}),
   u2 |-> createPropertyCard("utility", 2, FALSE, {}),
   wbl |-> createPropertyCard("brown", 1, TRUE, {"brown", "lightBlue"}),
   wur |-> createPropertyCard("utility", 2, TRUE, {"utility", "railroad"}),
   wany |-> createPropertyCard("railroad", 0, TRUE, Colors),
   m1 |-> createMoneyCard(1),
   m1b |-> createMoneyCard(1),
   m1c |-> createMoneyCard(1),
   m1d |-> createMoneyCard(1),
   m2 |-> createMoneyCard(2),
   m2b |-> createMoneyCard(2),
   m2c |-> createMoneyCard(2),
   m3 |-> createMoneyCard(3),
   m3b |-> createMoneyCard(3),
   m4 |-> createMoneyCard(4),
   m4b |-> createMoneyCard(4),
   m5 |-> createMoneyCard(5),
   m10 |-> createMoneyCard(10),
   db1 |-> createActionCard("dealBreaker", 5),
   db2 |-> createActionCard("dealBreaker", 5),
   jsn1 |-> createActionCard("justSayNo", 4),
   jsn2 |-> createActionCard("justSayNo", 4),
   jsn3 |-> createActionCard("justSayNo", 4),
   sly |-> createActionCard("slyDeal", 3),
   fd |-> createActionCard("forcedDeal", 3),
   dc |-> createActionCard("debtCollector", 3),
   bday |-> createActionCard("birthday", 2),
   go |-> createActionCard("passGo", 1),
   house |-> createActionCard("house", 3),
   house2 |-> createActionCard("house", 3),
   hotel |-> createActionCard("hotel", 4),
   dbl |-> createActionCard("doubleRent", 1),
   rbl |-> createRentCard({"brown", "lightBlue"}, 1, FALSE),
   rwild |-> createRentCard(Colors, 3, TRUE)]

CardIds == DOMAIN Card

\* for (let i = 0; i < n; i++) deck.push(card)
Times(n, card) == [i \in 1..n |-> card]

\* createDeck(): every deck.push(...) of it, in its order.
createDeck ==
  \* Property Cards
  <<createPropertyCard("brown", 1, FALSE, {}),
    createPropertyCard("brown", 1, FALSE, {}),
    createPropertyCard("lightBlue", 1, FALSE, {}),
    createPropertyCard("lightBlue", 1, FALSE, {}),
    createPropertyCard("lightBlue", 1, FALSE, {}),
    createPropertyCard("pink", 2, FALSE, {}),
    createPropertyCard("pink", 2, FALSE, {}),
    createPropertyCard("pink", 2, FALSE, {}),
    createPropertyCard("orange", 2, FALSE, {}),
    createPropertyCard("orange", 2, FALSE, {}),
    createPropertyCard("orange", 2, FALSE, {}),
    createPropertyCard("red", 3, FALSE, {}),
    createPropertyCard("red", 3, FALSE, {}),
    createPropertyCard("red", 3, FALSE, {}),
    createPropertyCard("yellow", 3, FALSE, {}),
    createPropertyCard("yellow", 3, FALSE, {}),
    createPropertyCard("yellow", 3, FALSE, {}),
    createPropertyCard("green", 4, FALSE, {}),
    createPropertyCard("green", 4, FALSE, {}),
    createPropertyCard("green", 4, FALSE, {}),
    createPropertyCard("darkBlue", 4, FALSE, {}),
    createPropertyCard("darkBlue", 4, FALSE, {}),
    createPropertyCard("railroad", 2, FALSE, {}),
    createPropertyCard("railroad", 2, FALSE, {}),
    createPropertyCard("railroad", 2, FALSE, {}),
    createPropertyCard("railroad", 2, FALSE, {}),
    createPropertyCard("utility", 2, FALSE, {}),
    createPropertyCard("utility", 2, FALSE, {})>>
  \* Wildcard Properties
  \o <<createPropertyCard("brown", 1, TRUE, {"brown", "lightBlue"}),
       createPropertyCard("pink", 2, TRUE, {"pink", "orange"}),
       createPropertyCard("red", 3, TRUE, {"red", "yellow"}),
       createPropertyCard("green", 4, TRUE, {"green", "darkBlue"}),
       createPropertyCard("green", 4, TRUE, {"green", "railroad"}),
       createPropertyCard("lightBlue", 4, TRUE, {"lightBlue", "railroad"}),
       createPropertyCard("utility", 2, TRUE, {"utility", "railroad"}),
       createPropertyCard("railroad", 0, TRUE, Colors),
       createPropertyCard("railroad", 0, TRUE, Colors)>>
  \* Money Cards
  \o Times(6, createMoneyCard(1))
  \o Times(5, createMoneyCard(2))
  \o Times(3, createMoneyCard(3))
  \o Times(3, createMoneyCard(4))
  \o Times(2, createMoneyCard(5))
  \o <<createMoneyCard(10)>>
  \* Action Cards
  \o Times(2, createActionCard("dealBreaker", 5))
  \o Times(3, createActionCard("justSayNo", 4))
  \o Times(3, createActionCard("slyDeal", 3))
  \o Times(4, createActionCard("forcedDeal", 3))
  \o Times(3, createActionCard("debtCollector", 3))
  \o Times(3, createActionCard("birthday", 2))
  \o Times(10, createActionCard("passGo", 1))
  \o Times(3, createActionCard("house", 3))
  \o Times(2, createActionCard("hotel", 4))
  \o Times(2, createActionCard("doubleRent", 1))
  \* Rent Cards
  \o Times(2, createRentCard({"brown", "lightBlue"}, 1, FALSE))
  \o Times(2, createRentCard({"pink", "orange"}, 1, FALSE))
  \o Times(2, createRentCard({"red", "yellow"}, 1, FALSE))
  \o Times(2, createRentCard({"green", "darkBlue"}, 1, FALSE))
  \o Times(2, createRentCard({"railroad", "utility"}, 1, FALSE))
  \o Times(3, createRentCard(Colors, 3, TRUE))

(***************************************************************************)
(* Array helpers (the JavaScript array methods the engine uses)            *)
(***************************************************************************)
Range(s) == {s[i] : i \in 1..Len(s)}

\* Array.prototype.splice(i, 1): the array without its i-th element.
RemoveAt(s, i) == SubSeq(s, 1, i - 1) \o SubSeq(s, i + 1, Len(s))

\* Array.prototype.findIndex for "element = x": 0 when absent (-1 in the code).
IndexOf(s, x) ==
  IF x \in Range(s)
    THEN CHOOSE i \in 1..Len(s) : s[i] = x /\ \A j \in 1..(i - 1) : s[j] # x
    ELSE 0

\* findIndex(c => c.type === 'action' && c.action === action) over card ids.
IndexOfAction(s, action) ==
  IF \E i \in 1..Len(s) : Card[s[i]].action = action
    THEN CHOOSE i \in 1..Len(s) :
           /\ Card[s[i]].action = action
           /\ \A j \in 1..(i - 1) : Card[s[j]].action # action
    ELSE 0

RECURSIVE SumValues(_)
\* reduce((sum, c) => sum + c.value, 0)
SumValues(s) ==
  IF s = <<>> THEN 0 ELSE Card[Head(s)].value + SumValues(Tail(s))

RECURSIVE Flatten(_)
\* properties.flatMap(s => s.cards)
Flatten(sets) ==
  IF sets = <<>> THEN <<>> ELSE Head(sets).cards \o Flatten(Tail(sets))

RECURSIVE FilterNonEmpty(_)
\* properties.filter(s => s.cards.length > 0)
FilterNonEmpty(sets) ==
  IF sets = <<>> THEN <<>>
  ELSE IF Len(Head(sets).cards) > 0
    THEN <<Head(sets)>> \o FilterNonEmpty(Tail(sets))
    ELSE FilterNonEmpty(Tail(sets))

\* properties.findIndex(s => s.color === color): 0 when absent.
SetIndex(sets, color) ==
  IF \E i \in 1..Len(sets) : sets[i].color = color
    THEN CHOOSE i \in 1..Len(sets) :
           /\ sets[i].color = color
           /\ \A j \in 1..(i - 1) : sets[j].color # color
    ELSE 0

Min(a, b) == IF a < b THEN a ELSE b


(***************************************************************************)
(* Bounds of the model                                                     *)
(***************************************************************************)
\* How many outcomes of a shuffle are explored (shuffleDeck is uniform over
\* all permutations): the deck rotated by 0, 1, ... MaxShuffles - 1 places.
MaxShuffles == 2

\* How many participants addPlayer may add before the match starts.
MaxPlayers == 3

\* How many times startGame may run in one behaviour.
MaxStarts == 2

\* The longest paymentCardIds list a response carries.
MaxPayment == 2

\* How many times the turn may pass to the next participant.
MaxTurns == 2

\* How many participants the lobby holds when startGame is tried on its
\* own (addPlayer itself has no limit; the joinRoom handler stops at 5).
MaxSeats == 6

\* playCard is explored while the action budget is below MaxBudget (the
\* double-rent and refusal cases of playActionCard can raise it without end).
MaxBudget == 4

(***************************************************************************)
(* cards.ts: shuffleDeck.  Fisher-Yates with Math.random can return any    *)
(* permutation of its argument; the model explores MaxShuffles of them.    *)
(***************************************************************************)
Rotate(s, k) == SubSeq(s, k + 1, Len(s)) \o SubSeq(s, 1, k)

shuffleDeck(deck) ==
  IF deck = <<>> THEN {<<>>}
  ELSE {Rotate(deck, k) : k \in 0..(Min(Len(deck), MaxShuffles) - 1)}

(***************************************************************************)
(* gameLogic.ts: values                                                    *)
(***************************************************************************)
Null == [type |-> "null"]

NoTarget ==
  [asBank |-> FALSE, propertySetColor |-> "none", playerId |-> 0,
   giveCardId |-> "none", giveFromSet |-> "none", useDoubleRent |-> FALSE]

\* The fields a PendingAction literal of the engine leaves out are undefined.
PendingDefaults ==
  [type |-> "none", fromPlayerId |-> 0, toPlayerId |-> 0, amount |-> 0,
   targetSet |-> "none", giveCardId |-> "none", giveFromSet |-> "none",
   card |-> "none", canSayNo |-> TRUE, multi |-> FALSE,
   respondedPlayers |-> <<>>, isDoubleRent |-> FALSE]

Ok(g) == [g |-> g, ok |-> TRUE]
Throw(g) == [g |-> g, ok |-> FALSE]

NewPlayer == [hand |-> <<>>, properties |-> <<>>, bank |-> <<>>]

\* A faulty variant of HasJustSayNo that finds a refusal card in any hand;
\* RefusalWithoutCounter tells it from the engine's.
HasJustSayNoAlways(hand) == TRUE

\* hand.find(c => c.type === 'action' && c.action === 'justSayNo')
HasJustSayNo(hand) == IndexOfAction(hand, "justSayNo") # 0

(***************************************************************************)
(* gameLogic.ts: the property ledger                                       *)
(***************************************************************************)
PropertyCount(cards) ==
  Cardinality({i \in 1..Len(cards) : Card[cards[i]].type = "property"})

\* A faulty variant of updatePropertySetCompletion that asks for one card
\* more than the color requires; CompletenessFlag tells it from the engine's.
updatePropertySetCompletionStrict(set) ==
  [set EXCEPT !.isComplete =
     PropertyCount(set.cards) > PROPERTY_SET_REQUIREMENTS(set.color)]

updatePropertySetCompletion(set) ==
  [set EXCEPT !.isComplete =
     PropertyCount(set.cards) >= PROPERTY_SET_REQUIREMENTS(set.color)]

NewSet(color) ==
  [color |-> color, cards |-> <<>>, hasHouse |-> FALSE, hasHotel |-> FALSE,
   isComplete |-> FALSE]

\* A faulty variant of playPropertyCard that lays a wildcard under any
\* color; WildcardLegality tells it from the engine's.
playPropertyCardAnyColor(g, pi, card, targetColor) ==
  LET color == IF targetColor # "none" THEN targetColor ELSE Card[card].color
      sets == g.players[pi].properties
      k == SetIndex(sets, color)
      sets1 == IF k = 0 THEN Append(sets, NewSet(color)) ELSE sets
      k1 == IF k = 0 THEN Len(sets1) ELSE k
      placed == updatePropertySetCompletion(
                  [sets1[k1] EXCEPT !.cards = Append(@, card)])
  IN Ok([g EXCEPT !.players[pi].properties = [sets1 EXCEPT ![k1] = placed]])

\* playPropertyCard(state, players[pi], card, targetColor)
playPropertyCard(g, pi, card, targetColor) ==
  LET color == IF targetColor # "none" THEN targetColor ELSE Card[card].color
      sets == g.players[pi].properties
      k == SetIndex(sets, color)
      sets1 == IF k = 0 THEN Append(sets, NewSet(color)) ELSE sets
      k1 == IF k = 0 THEN Len(sets1) ELSE k
      placed == updatePropertySetCompletion(
                  [sets1[k1] EXCEPT !.cards = Append(@, card)])
  IN IF Card[card].isWildcard /\ color \notin Card[card].wildcardColors
       THEN Throw(g)
       ELSE Ok([g EXCEPT !.players[pi].properties =
                           [sets1 EXCEPT ![k1] = placed]])

\* A faulty variant of calculateRent that charges nothing for a hotel;
\* RentAmount tells it from the engine's.
calculateRentNoHotel(set) ==
  LET baseRent == RENT_VALUES(set.color)
      propertyCount ==
        Cardinality({i \in 1..Len(set.cards) :
                       \/ Card[set.cards[i]].type = "property"
                       \/ Card[set.cards[i]].isWildcard})
      at == Min(propertyCount - 1, Len(baseRent) - 1) + 1
      base == IF at \in 1..Len(baseRent) THEN baseRent[at] ELSE 0
  IN base + (IF set.hasHouse THEN 3 ELSE 0)

\* calculateRent(propertySet)
calculateRent(set) ==
  LET baseRent == RENT_VALUES(set.color)
      propertyCount ==
        Cardinality({i \in 1..Len(set.cards) :
                       \/ Card[set.cards[i]].type = "property"
                       \/ Card[set.cards[i]].isWildcard})
      at == Min(propertyCount - 1, Len(baseRent) - 1) + 1
      base == IF at \in 1..Len(baseRent) THEN baseRent[at] ELSE 0
  IN base + (IF set.hasHouse THEN 3 ELSE 0) + (IF set.hasHotel THEN 4 ELSE 0)

CompleteSets(pl) ==
  Cardinality({i \in 1..Len(pl.properties) : pl.properties[i].isComplete})

\* checkWinner(state)
checkWinner(g) ==
  IF \E i \in 1..Len(g.players) : CompleteSets(g.players[i]) >= 3
    THEN LET w == CHOOSE i \in 1..Len(g.players) :
                    /\ CompleteSets(g.players[i]) >= 3
                    /\ \A j \in 1..(i - 1) : CompleteSets(g.players[j]) < 3
         IN [g EXCEPT !.winner = w, !.phase = "finished"]
    ELSE g

(***************************************************************************)
(* gameLogic.ts: drawing                                                   *)
(***************************************************************************)
RECURSIVE DrawLoop(_, _, _)
\* The loop shared by drawCards and the passGo case: n times, reshuffle the
\* discard pile into an empty deck, then pop a card (if any) into the hand.
\* The set of states the loop can leave, one per outcome of its shuffles.
DrawLoop(g, pi, n) ==
  IF n = 0 THEN {g}
  ELSE LET afterShuffle ==
             IF g.deck = <<>>
               THEN {[g EXCEPT !.deck = d, !.discardPile = <<>>] :
                       d \in shuffleDeck(g.discardPile)}
               ELSE {g}
           Pop(h) ==
             IF h.deck = <<>> THEN h
             ELSE [h EXCEPT !.deck = SubSeq(@, 1, Len(@) - 1),
                            !.players[pi].hand = Append(@, h.deck[Len(h.deck)])]
       IN UNION {DrawLoop(Pop(h), pi, n - 1) : h \in afterShuffle}

(***************************************************************************)
(* gameLogic.ts: playing a card                                            *)
(***************************************************************************)
\* A faulty variant of PhaseAfterClear that looks at the hand before the
\* budget; PhaseAfterClearing tells it from the engine's.
PhaseAfterClearHandFirst(g) ==
  IF Len(g.players[g.currentPlayerIndex + 1].hand) > 7 THEN "discard"
  ELSE IF g.actionsRemaining <= 0 THEN "finishing"
  ELSE "action"

\* A faulty variant of PhaseAfterClear that sends the current participant
\* to discard whenever the budget is used up; NoDeadlock tells it from the
\* engine's.
PhaseAfterClearAlwaysDiscard(g) ==
  IF g.actionsRemaining <= 0 THEN "discard" ELSE "action"

\* The rule that picks the turn phase once no action is pending (it is
\* written out three times in respondToAction).
PhaseAfterClear(g) ==
  IF g.actionsRemaining <= 0
    THEN IF Len(g.players[g.currentPlayerIndex + 1].hand) > 7
           THEN "discard" ELSE "finishing"
    ELSE "action"

\* A faulty variant of playActionCard that lays a house on a set that has
\* one already; Modifiers tells it from the engine's.
playActionCardSecondHouse(g, pi, card, target) ==
  LET action == Card[card].action
      Pending(fields) ==
        {Ok([g EXCEPT !.pendingAction = fields, !.turnPhase = "responding"])}
      sets == g.players[pi].properties
      k == SetIndex(sets, target.propertySetColor)
  IN CASE action = "passGo" ->
            {Ok([h EXCEPT !.discardPile = Append(@, card)]) :
               h \in DrawLoop(g, pi, 2)}
       [] action = "birthday" ->
            Pending([PendingDefaults EXCEPT
                       !.type = "birthday", !.fromPlayerId = pi, !.amount = 2,
                       !.card = card, !.multi = TRUE])
       [] action = "debtCollector" ->
            IF target.playerId = 0 THEN {Throw(g)}
            ELSE Pending([PendingDefaults EXCEPT
                            !.type = "debtCollector", !.fromPlayerId = pi,
                            !.toPlayerId = target.playerId, !.amount = 5,
                            !.card = card])
       [] action = "slyDeal" ->
            IF target.playerId = 0 \/ target.propertySetColor = "none"
              THEN {Throw(g)}
            ELSE Pending([PendingDefaults EXCEPT
                            !.type = "slyDeal", !.fromPlayerId = pi,
                            !.toPlayerId = target.playerId,
                            !.targetSet = target.propertySetColor,
                            !.card = card])
       [] action = "forcedDeal" ->
            IF \/ target.playerId = 0 \/ target.propertySetColor = "none"
               \/ target.giveCardId = "none" \/ target.giveFromSet = "none"
              THEN {Throw(g)}
            ELSE Pending([PendingDefaults EXCEPT
                            !.type = "forcedDeal", !.fromPlayerId = pi,
                            !.toPlayerId = target.playerId,
                            !.targetSet = target.propertySetColor,
                            !.giveCardId = target.giveCardId,
                            !.giveFromSet = target.giveFromSet,
                            !.card = card])
       [] action = "dealBreaker" ->
            IF target.playerId = 0 \/ target.propertySetColor = "none"
              THEN {Throw(g)}
            ELSE LET tsets == g.players[target.playerId].properties
                     t == SetIndex(tsets, target.propertySetColor)
                 IN IF t = 0 \/ ~tsets[t].isComplete THEN {Throw(g)}
                    ELSE Pending([PendingDefaults EXCEPT
                                    !.type = "dealBreaker", !.fromPlayerId = pi,
                                    !.toPlayerId = target.playerId,
                                    !.targetSet = target.propertySetColor,
                                    !.card = card])
       [] action = "house" ->
            IF target.propertySetColor = "none" THEN {Throw(g)}
            ELSE IF k = 0 \/ ~sets[k].isComplete THEN {Throw(g)}
            ELSE {Ok([g EXCEPT !.players[pi].properties[k].hasHouse = TRUE,
                               !.players[pi].properties[k].cards =
                                  Append(@, card)])}
       [] action = "hotel" ->
            IF target.propertySetColor = "none" THEN {Throw(g)}
            ELSE IF k = 0 \/ ~sets[k].isComplete THEN {Throw(g)}
            ELSE IF ~sets[k].hasHouse THEN {Throw(g)}
            ELSE IF sets[k].hasHotel THEN {Throw(g)}
            ELSE {Ok([g EXCEPT !.players[pi].properties[k].hasHotel = TRUE,
                               !.players[pi].properties[k].cards =
                                  Append(@, card)])}
       [] action \in {"doubleRent", "justSayNo"} ->
            \* player.hand.push(card); state.actionsRemaining++; throw
            {Throw([g EXCEPT !.players[pi].hand = Append(@, card),
                             !.actionsRemaining = @ + 1])}

\* playActionCard(state, players[pi], card, target); the card has already
\* left the hand.  A set of outcomes (passGo shuffles).
playActionCard(g, pi, card, target) ==
  LET action == Card[card].action
      Pending(fields) ==
        {Ok([g EXCEPT !.pendingAction = fields, !.turnPhase = "responding"])}
      sets == g.players[pi].properties
      k == SetIndex(sets, target.propertySetColor)
  IN CASE action = "passGo" ->
            {Ok([h EXCEPT !.discardPile = Append(@, card)]) :
               h \in DrawLoop(g, pi, 2)}
       [] action = "birthday" ->
            Pending([PendingDefaults EXCEPT
                       !.type = "birthday", !.fromPlayerId = pi, !.amount = 2,
                       !.card = card, !.multi = TRUE])
       [] action = "debtCollector" ->
            IF target.playerId = 0 THEN {Throw(g)}
            ELSE Pending([PendingDefaults EXCEPT
                            !.type = "debtCollector", !.fromPlayerId = pi,
                            !.toPlayerId = target.playerId, !.amount = 5,
                            !.card = card])
       [] action = "slyDeal" ->
            IF target.playerId = 0 \/ target.propertySetColor = "none"
              THEN {Throw(g)}
            ELSE Pending([PendingDefaults EXCEPT
                            !.type = "slyDeal", !.fromPlayerId = pi,
                            !.toPlayerId = target.playerId,
                            !.targetSet = target.propertySetColor,
                            !.card = card])
       [] action = "forcedDeal" ->
            IF \/ target.playerId = 0 \/ target.propertySetColor = "none"
               \/ target.giveCardId = "none" \/ target.giveFromSet = "none"
              THEN {Throw(g)}
            ELSE Pending([PendingDefaults EXCEPT
                            !.type = "forcedDeal", !.fromPlayerId = pi,
                            !.toPlayerId = target.playerId,
                            !.targetSet = target.propertySetColor,
                            !.giveCardId = target.giveCardId,
                            !.giveFromSet = target.giveFromSet,
                            !.card = card])
       [] action = "dealBreaker" ->
            IF target.playerId = 0 \/ target.propertySetColor = "none"
              THEN {Throw(g)}
            ELSE LET tsets == g.players[target.playerId].properties
                     t == SetIndex(tsets, target.propertySetColor)
                 IN IF t = 0 \/ ~tsets[t].isComplete THEN {Throw(g)}
                    ELSE Pending([PendingDefaults EXCEPT
                                    !.type = "dealBreaker", !.fromPlayerId = pi,
                                    !.toPlayerId = target.playerId,
                                    !.targetSet = target.propertySetColor,
                                    !.card = card])
       [] action = "house" ->
            IF target.propertySetColor = "none" THEN {Throw(g)}
            ELSE IF k = 0 \/ ~sets[k].isComplete THEN {Throw(g)}
            ELSE IF sets[k].hasHouse THEN {Throw(g)}
            ELSE {Ok([g EXCEPT !.players[pi].properties[k].hasHouse = TRUE,
                               !.players[pi].properties[k].cards =
                                  Append(@, card)])}
       [] action = "hotel" ->
            IF target.propertySetColor = "none" THEN {Throw(g)}
            ELSE IF k = 0 \/ ~sets[k].isComplete THEN {Throw(g)}
            ELSE IF ~sets[k].hasHouse THEN {Throw(g)}
            ELSE IF sets[k].hasHotel THEN {Throw(g)}
            ELSE {Ok([g EXCEPT !.players[pi].properties[k].hasHotel = TRUE,
                               !.players[pi].properties[k].cards =
                                  Append(@, card)])}
       [] action \in {"doubleRent", "justSayNo"} ->
            \* player.hand.push(card); state.actionsRemaining++; throw
            {Throw([g EXCEPT !.players[pi].hand = Append(@, card),
                             !.actionsRemaining = @ + 1])}

\* playRentCard(state, players[pi], card, target); the card has already left
\* the hand.
playRentCard(g, pi, card, target) ==
  LET sets == g.players[pi].properties
      targetColor == target.propertySetColor
      Matches(i) ==
        /\ sets[i].color \in Card[card].colors
        /\ targetColor # "none" => sets[i].color = targetColor
      m == IF \E i \in 1..Len(sets) : Matches(i)
             THEN CHOOSE i \in 1..Len(sets) :
                    Matches(i) /\ \A j \in 1..(i - 1) : ~Matches(j)
             ELSE 0
      rent == calculateRent(sets[m])
      hand == g.players[pi].hand
      dblIndex == IndexOfAction(hand, "doubleRent")
      doubled == target.useDoubleRent /\ dblIndex # 0
      \* the state after the double-rent block
      g1 == IF doubled
              THEN [g EXCEPT !.players[pi].hand = RemoveAt(@, dblIndex),
                             !.discardPile = Append(@, hand[dblIndex]),
                             !.actionsRemaining = @ - 1]
              ELSE g
      rentAmount == IF doubled THEN rent * 2 ELSE rent
      pending ==
        IF Card[card].isWildRent
          THEN [PendingDefaults EXCEPT
                  !.type = "rent", !.fromPlayerId = pi,
                  !.toPlayerId = target.playerId, !.amount = rentAmount,
                  !.card = card, !.isDoubleRent = target.useDoubleRent]
          ELSE [PendingDefaults EXCEPT
                  !.type = "rent", !.fromPlayerId = pi, !.amount = rentAmount,
                  !.card = card, !.multi = TRUE,
                  !.isDoubleRent = target.useDoubleRent]
  IN IF m = 0 THEN Throw(g)
     ELSE IF Card[card].isWildRent /\ target.playerId = 0 THEN Throw(g1)
     ELSE Ok([g1 EXCEPT !.pendingAction = pending,
                        !.turnPhase = "responding",
                        !.discardPile = Append(@, card)])

\* playCard(state, playerId, cardId, target): the set of outcomes.
playCard(g, playerId, cardId, target) ==
  LET hand == g.players[playerId].hand
      cardIndex == IndexOf(hand, cardId)
      \* player.hand.splice(cardIndex, 1)
      g1 == [g EXCEPT !.players[playerId].hand = RemoveAt(@, cardIndex)]
      played ==
        IF target.asBank \/ Card[cardId].type = "money"
          THEN {Ok([g1 EXCEPT !.players[playerId].bank = Append(@, cardId)])}
        ELSE IF Card[cardId].type = "property"
          THEN {playPropertyCard(g1, playerId, cardId, target.propertySetColor)}
        ELSE IF Card[cardId].type = "action"
          THEN playActionCard(g1, playerId, cardId, target)
        ELSE {playRentCard(g1, playerId, cardId, target)}
      Finish(h) ==
        LET h1 == checkWinner([h EXCEPT !.actionsRemaining = @ - 1])
        IN IF h1.actionsRemaining <= 0 /\ h1.pendingAction = Null
             THEN [h1 EXCEPT !.turnPhase =
                     IF Len(h1.players[playerId].hand) > 7
                       THEN "discard" ELSE "finishing"]
             ELSE h1
  IN IF playerId \notin 1..Len(g.players) THEN {Throw(g)}
     ELSE IF g.currentPlayerIndex + 1 # playerId THEN {Throw(g)}
     ELSE IF g.turnPhase # "action" THEN {Throw(g)}
     ELSE IF g.actionsRemaining <= 0 THEN {Throw(g)}
     ELSE IF cardIndex = 0 THEN {Throw(g)}
     ELSE {IF r.ok THEN Ok(Finish(r.g)) ELSE r : r \in played}

(***************************************************************************)
(* gameLogic.ts: answering a pending action                                *)
(***************************************************************************)
\* The index of the first set of sets that holds cardId (0 when none does):
\* the set at which respondToAction's inner loop over player.properties
\* breaks.
SetHolding(sets, cardId) ==
  IF \E i \in 1..Len(sets) : cardId \in Range(sets[i].cards)
    THEN CHOOSE i \in 1..Len(sets) :
           /\ cardId \in Range(sets[i].cards)
           /\ \A j \in 1..(i - 1) : cardId \notin Range(sets[j].cards)
    ELSE 0

\* One round of the payment loop of respondToAction: cardId leaves
\* players[p] (the responder) for players[f] (the initiator).
PayCard(g, p, f, cardId) ==
  LET bankIndex == IndexOf(g.players[p].bank, cardId)
      si == SetHolding(g.players[p].properties, cardId)
      propIndex == IndexOf(g.players[p].properties[si].cards, cardId)
      g1 == [g EXCEPT !.players[p].properties[si].cards =
                         RemoveAt(@, propIndex)]
      r == IF Card[cardId].type = "property"
             THEN playPropertyCard(g1, f, cardId, "none")
             ELSE Ok([g1 EXCEPT !.players[f].bank = Append(@, cardId)])
  IN IF bankIndex # 0
       THEN LET g0 == [g EXCEPT !.players[p].bank = RemoveAt(@, bankIndex)]
            IN Ok([g0 EXCEPT !.players[f].bank = Append(@, cardId)])
     ELSE IF si = 0 THEN Ok(g)
     ELSE IF ~r.ok THEN r
     ELSE Ok([r.g EXCEPT !.players[p].properties[si] =
                            updatePropertySetCompletion(@)])

RECURSIVE PayLoop(_, _, _, _)
\* for (const cardId of paymentCardIds) { ... }
PayLoop(g, p, f, ids) ==
  IF ids = <<>> THEN Ok(g)
  ELSE LET r == PayCard(g, p, f, Head(ids))
       IN IF r.ok THEN PayLoop(r.g, p, f, Tail(ids)) ELSE r

\* paymentCardIds.reduce(...): what the offered ids are worth.
RECURSIVE PaymentValue(_, _)
PaymentValue(pl, ids) ==
  IF ids = <<>> THEN 0
  ELSE LET c == Head(ids)
           bankValue == IF c \in Range(pl.bank) THEN Card[c].value ELSE 0
           propValue == IF c \in Range(Flatten(pl.properties))
                          THEN Card[c].value ELSE 0
       IN (IF bankValue # 0 THEN bankValue ELSE propValue)
          + PaymentValue(pl, Tail(ids))

TotalAssets(pl) == SumValues(pl.bank) + SumValues(Flatten(pl.properties))

\* Where the set at index i of sets is after sets.filter(non-empty): 0 when
\* the filter dropped it (the code then still holds the detached object).
IndexAfterFilter(sets, i) ==
  IF i = 0 \/ Len(sets[i].cards) = 0 THEN 0
  ELSE i - Cardinality({j \in 1..(i - 1) : Len(sets[j].cards) = 0})

\* Which card executeSlyDeal / executeForcedDeal take from a set: the one
\* named, when it is there, and the last one otherwise.
TakenIndex(cards, targetCardId) ==
  IF targetCardId # "none" /\ IndexOf(cards, targetCardId) # 0
    THEN IndexOf(cards, targetCardId)
    ELSE Len(cards)

\* executeSlyDeal(state, players[f], players[t], targetColor, targetCardId)
executeSlyDeal(g, f, t, targetColor, targetCardId) ==
  LET sets == g.players[t].properties
      k == SetIndex(sets, targetColor)
      cardIndex == TakenIndex(sets[k].cards, targetCardId)
      card == sets[k].cards[cardIndex]
      g1 == [g EXCEPT !.players[t].properties[k].cards =
                         RemoveAt(@, cardIndex)]
      r == IF Card[card].type = "property"
             THEN playPropertyCard(g1, f, card, targetColor)
             ELSE Ok(g1)
  IN IF k = 0 \/ sets[k].isComplete THEN Ok(g)
     ELSE IF ~r.ok THEN r
     ELSE Ok([r.g EXCEPT !.players[t].properties =
                FilterNonEmpty([@ EXCEPT ![k] = updatePropertySetCompletion(@)])])

\* executeForcedDeal, "Add taken card to initiator" onwards: rTake is what
\* adding the taken card left, k4 where the target's set is by then.
ForcedDealTaken(rTake, t, k4) ==
  IF ~rTake.ok THEN rTake
  ELSE LET g5 == IF k4 = 0 THEN rTake.g
                 ELSE [rTake.g EXCEPT !.players[t].properties[k4] =
                                         updatePropertySetCompletion(@)]
       IN Ok([g5 EXCEPT !.players[t].properties = FilterNonEmpty(@)])

\* executeForcedDeal, after the give: given is [g, ok, k], the state the
\* give left, whether it returned, and where the target's set is.
ForcedDealTake(given, f, t, takenCard, targetColor) ==
  IF ~given.ok THEN Throw(given.g)
  ELSE ForcedDealTaken(IF Card[takenCard].type = "property"
                         THEN playPropertyCard(given.g, f, takenCard,
                                               targetColor)
                         ELSE Ok(given.g),
                       t, given.k)

\* executeForcedDeal, the end of "Give a card from initiator to target":
\* rGive is what adding the given card to the target left.
\* fromPlayer.properties = fromPlayer.properties.filter(...): when the two
\* participants are the same one, the target set moves with it.
ForcedDealGiven(rGive, f, t, gk, k) ==
  IF ~rGive.ok THEN [g |-> rGive.g, ok |-> FALSE, k |-> k]
  ELSE LET g3 == [rGive.g EXCEPT !.players[f].properties[gk] =
                                    updatePropertySetCompletion(@)]
       IN [g |-> [g3 EXCEPT !.players[f].properties = FilterNonEmpty(@)],
           ok |-> TRUE,
           k |-> IF f = t THEN IndexAfterFilter(g3.players[f].properties, k)
                 ELSE k]

\* executeForcedDeal, "Give a card from initiator to target": g1 is the
\* state with the taken card out of the target's set at index k.
ForcedDealGive(g1, f, t, giveCardId, giveFromSet, k) ==
  LET fsets == g1.players[f].properties
      gk == IF giveFromSet = "none" THEN 0 ELSE SetIndex(fsets, giveFromSet)
      giveCardIndex ==
        IF giveCardId = "none" \/ gk = 0 THEN 0
        ELSE IF fsets[gk].isComplete THEN 0
        ELSE IndexOf(fsets[gk].cards, giveCardId)
      g2 == [g1 EXCEPT !.players[f].properties[gk].cards =
                          RemoveAt(@, giveCardIndex)]
  IN IF giveCardIndex = 0 THEN [g |-> g1, ok |-> TRUE, k |-> k]
     ELSE ForcedDealGiven(IF Card[giveCardId].type = "property"
                            THEN playPropertyCard(g2, t, giveCardId,
                                                  giveFromSet)
                            ELSE Ok(g2),
                          f, t, gk, k)

\* executeForcedDeal(state, players[f], players[t], targetColor,
\*                   targetCardId, giveCardId, giveFromSet)
executeForcedDeal(g, f, t, targetColor, targetCardId, giveCardId, giveFromSet) ==
  LET sets == g.players[t].properties
      k == SetIndex(sets, targetColor)
      targetCardIndex == TakenIndex(sets[k].cards, targetCardId)
      takenCard == sets[k].cards[targetCardIndex]
      g1 == [g EXCEPT !.players[t].properties[k].cards =
                         RemoveAt(@, targetCardIndex)]
  IN IF k = 0 \/ sets[k].isComplete THEN Ok(g)
     ELSE ForcedDealTake(
            ForcedDealGive(g1, f, t, giveCardId, giveFromSet, k),
            f, t, takenCard, targetColor)

\* executeDealBreaker(state, players[f], players[t], targetColor)
executeDealBreaker(g, f, t, targetColor) ==
  LET sets == g.players[t].properties
      targetSetIndex == SetIndex(sets, targetColor)
      g1 == [g EXCEPT !.players[t].properties = RemoveAt(@, targetSetIndex)]
  IN IF targetSetIndex = 0 THEN Ok(g)
     ELSE Ok([g1 EXCEPT !.players[f].properties =
                Append(@, sets[targetSetIndex])])

NoResponse ==
  [useJustSayNo |-> FALSE, accept |-> FALSE, paymentCardIds |-> <<>>,
   selectedCardId |-> "none"]

\* A faulty variant of AllResponded that is content with one participant
\* other than the initiator; BroadcastRefusal tells it from the engine's.
AnyResponded(g, pa) ==
  \E q \in 1..Len(g.players) :
    q # pa.fromPlayerId /\ q \in Range(pa.respondedPlayers)

\* Every participant but the initiator is in respondedPlayers.
AllResponded(g, pa) ==
  \A q \in 1..Len(g.players) :
    q # pa.fromPlayerId => q \in Range(pa.respondedPlayers)

\* A faulty variant of ClearPending that leaves the turn phase alone;
\* RefusalChainStep tells it from the engine's.
ClearPendingOnly(g) == [g EXCEPT !.pendingAction = Null]

\* state.pendingAction = null, then the phase rule.
ClearPending(g) ==
  LET g1 == [g EXCEPT !.pendingAction = Null]
  IN [g1 EXCEPT !.turnPhase = PhaseAfterClear(g1)]

\* A faulty variant of RespondJustSayNo that marks the responder as having
\* responded before it looks for the refusal card; RejectedResponseUnchanged
\* tells it from the engine's.
RespondJustSayNoMarked(g, playerId) ==
  LET pa == g.pendingAction
      f == pa.fromPlayerId
      hand == g.players[playerId].hand
      justSayNoIndex == IndexOfAction(hand, "justSayNo")
      gMarked == [g EXCEPT !.pendingAction.respondedPlayers =
                              Append(@, playerId)]
      gNo == [g EXCEPT !.players[playerId].hand = RemoveAt(@, justSayNoIndex),
                       !.discardPile = Append(@, hand[justSayNoIndex])]
      gNoMulti == [gNo EXCEPT !.pendingAction.respondedPlayers =
                                 Append(@, playerId)]
  IN IF justSayNoIndex = 0 THEN Throw(gMarked)
     ELSE IF pa.multi
       THEN IF AllResponded(gNoMulti, gNoMulti.pendingAction)
              THEN Ok(ClearPending(gNoMulti))
              ELSE Ok(gNoMulti)
     ELSE IF HasJustSayNo(gNo.players[f].hand)
       THEN Ok([gNo EXCEPT !.pendingAction.fromPlayerId = playerId,
                           !.pendingAction.toPlayerId = f,
                           !.pendingAction.canSayNo = TRUE])
     ELSE Ok(ClearPending(gNo))

\* respondToAction, "Handle Just Say No".
\* A faulty variant of RespondJustSayNo in which a refusal cancels a
\* broadcast action for everyone; BroadcastOrder tells it from the engine's.
RespondJustSayNoCancelsAll(g, playerId) ==
  LET pa == g.pendingAction
      f == pa.fromPlayerId
      hand == g.players[playerId].hand
      justSayNoIndex == IndexOfAction(hand, "justSayNo")
      gNo == [g EXCEPT !.players[playerId].hand = RemoveAt(@, justSayNoIndex),
                       !.discardPile = Append(@, hand[justSayNoIndex])]
  IN IF justSayNoIndex = 0 THEN Throw(g)
     ELSE IF ~pa.multi /\ HasJustSayNo(gNo.players[f].hand)
       THEN Ok([gNo EXCEPT !.pendingAction.fromPlayerId = playerId,
                           !.pendingAction.toPlayerId = f,
                           !.pendingAction.canSayNo = TRUE])
     ELSE Ok(ClearPending(gNo))

RespondJustSayNo(g, playerId) ==
  LET pa == g.pendingAction
      f == pa.fromPlayerId
      hand == g.players[playerId].hand
      justSayNoIndex == IndexOfAction(hand, "justSayNo")
      gNo == [g EXCEPT !.players[playerId].hand = RemoveAt(@, justSayNoIndex),
                       !.discardPile = Append(@, hand[justSayNoIndex])]
      gNoMulti == [gNo EXCEPT !.pendingAction.respondedPlayers =
                                 Append(@, playerId)]
  IN IF justSayNoIndex = 0 THEN Throw(g)
     ELSE IF pa.multi
       THEN IF AllResponded(gNoMulti, gNoMulti.pendingAction)
              THEN Ok(ClearPending(gNoMulti))
              ELSE Ok(gNoMulti)
     ELSE IF HasJustSayNo(gNo.players[f].hand)
       THEN Ok([gNo EXCEPT !.pendingAction.fromPlayerId = playerId,
                           !.pendingAction.toPlayerId = f,
                           !.pendingAction.canSayNo = TRUE])
     ELSE Ok(ClearPending(gNo))

\* respondToAction, "Handle payment": the transfers, once the offer was
\* found sufficient.
RespondPayment(g, playerId, response) ==
  IF response.accept /\ g.pendingAction.amount # 0
    THEN LET r == PayLoop(g, playerId, g.pendingAction.fromPlayerId,
                          response.paymentCardIds)
         IN IF r.ok
              THEN Ok([r.g EXCEPT !.players[playerId].properties =
                                     FilterNonEmpty(@)])
              ELSE r
    ELSE Ok(g)

\* respondToAction, "Handle specific action completions": rPay is what the
\* payment left.
RespondCompletion(rPay, playerId, response) ==
  LET pa == rPay.g.pendingAction
      f == pa.fromPlayerId
  IN IF ~rPay.ok THEN rPay
     ELSE IF response.accept /\ ~pa.multi
       THEN CASE pa.type = "slyDeal" ->
                   executeSlyDeal(rPay.g, f, playerId, pa.targetSet,
                                  response.selectedCardId)
              [] pa.type = "forcedDeal" ->
                   executeForcedDeal(rPay.g, f, playerId, pa.targetSet,
                                     response.selectedCardId,
                                     pa.giveCardId, pa.giveFromSet)
              [] pa.type = "dealBreaker" ->
                   executeDealBreaker(rPay.g, f, playerId, pa.targetSet)
              [] OTHER -> rPay
     ELSE rPay

\* respondToAction, from "For multi-player actions, track who has
\* responded" to its end: rDone is what the completion left.
RespondTracking(rDone, playerId) ==
  LET gTracked == [rDone.g EXCEPT !.pendingAction.respondedPlayers =
                                     Append(@, playerId)]
  IN IF ~rDone.ok THEN rDone
     ELSE IF rDone.g.pendingAction.multi
       THEN IF AllResponded(gTracked, gTracked.pendingAction)
              THEN Ok(ClearPending(gTracked))
              ELSE Ok(gTracked)
     ELSE Ok(ClearPending(rDone.g))

\* respondToAction(state, playerId, response)
respondToAction(g, playerId, response) ==
  LET pa == g.pendingAction
      player == g.players[playerId]
      totalAssets == TotalAssets(player)
      paymentValue == PaymentValue(player, response.paymentCardIds)
  IN IF pa = Null THEN Throw(g)
     ELSE IF playerId \notin 1..Len(g.players) THEN Throw(g)
     ELSE IF pa.fromPlayerId \notin 1..Len(g.players) THEN Throw(g)
     ELSE IF pa.multi /\ playerId \in Range(pa.respondedPlayers)
       THEN Throw(g)
     ELSE IF response.useJustSayNo THEN RespondJustSayNo(g, playerId)
     ELSE IF response.accept /\ pa.amount # 0 /\ totalAssets > 0
             /\ paymentValue < Min(pa.amount, totalAssets)
       THEN Throw(g)
     ELSE RespondTracking(
            RespondCompletion(RespondPayment(g, playerId, response),
                              playerId, response),
            playerId)

(***************************************************************************)
(* gameLogic.ts: the turn state machine                                    *)
(***************************************************************************)
\* drawCards(state, playerId): the set of outcomes.
\* A faulty variant of drawCards that draws 2 cards into an empty hand too;
\* DrawContract tells it from the engine's.
drawCardsAlwaysTwo(g, playerId) ==
  IF playerId \notin 1..Len(g.players) THEN {Throw(g)}
  ELSE IF g.currentPlayerIndex + 1 # playerId THEN {Throw(g)}
  ELSE IF g.turnPhase # "draw" THEN {Throw(g)}
  ELSE {Ok([h EXCEPT !.turnPhase = "action"]) :
          h \in DrawLoop(g, playerId, 2)}

drawCards(g, playerId) ==
  IF playerId \notin 1..Len(g.players) THEN {Throw(g)}
  ELSE IF g.currentPlayerIndex + 1 # playerId THEN {Throw(g)}
  ELSE IF g.turnPhase # "draw" THEN {Throw(g)}
  ELSE LET cardsToDraw == IF Len(g.players[playerId].hand) = 0 THEN 5 ELSE 2
       IN {Ok([h EXCEPT !.turnPhase = "action"]) :
             h \in DrawLoop(g, playerId, cardsToDraw)}

\* endTurn(state)
endTurn(g) ==
  [g EXCEPT !.currentPlayerIndex = (@ + 1) % Len(g.players),
            !.turnPhase = "draw",
            !.actionsRemaining = 3,
            !.pendingAction = Null]

RECURSIVE DiscardLoop(_, _, _)
\* for (const cardId of cardIds) { ... } of discardCards
DiscardLoop(g, playerId, cardIds) ==
  IF cardIds = <<>> THEN Ok(g)
  ELSE LET index == IndexOf(g.players[playerId].hand, Head(cardIds))
       IN IF index = 0 THEN Throw(g)
          ELSE DiscardLoop(
                 [g EXCEPT !.players[playerId].hand = RemoveAt(@, index),
                           !.discardPile = Append(@, Head(cardIds))],
                 playerId, Tail(cardIds))

\* discardCards(state, playerId, cardIds)
\* A faulty variant of discardCards that accepts any number of cards;
\* HandLimit tells it from the engine's.
discardCardsAnyCount(g, playerId, cardIds) ==
  LET r == DiscardLoop(g, playerId, cardIds)
  IN IF playerId \notin 1..Len(g.players) THEN Throw(g)
     ELSE IF g.currentPlayerIndex + 1 # playerId THEN Throw(g)
     ELSE IF g.turnPhase # "discard" THEN Throw(g)
     ELSE IF r.ok THEN Ok(endTurn(r.g)) ELSE r

discardCards(g, playerId, cardIds) ==
  LET cardsToDiscard == Len(g.players[playerId].hand) - 7
      r == DiscardLoop(g, playerId, cardIds)
  IN IF playerId \notin 1..Len(g.players) THEN Throw(g)
     ELSE IF g.currentPlayerIndex + 1 # playerId THEN Throw(g)
     ELSE IF g.turnPhase # "discard" THEN Throw(g)
     ELSE IF Len(cardIds) # cardsToDiscard THEN Throw(g)
     ELSE IF r.ok THEN Ok(endTurn(r.g)) ELSE r

\* A faulty variant of endTurnEarly that does not look at the turn phase;
\* TurnPhaseLegality tells it from the engine's.
endTurnEarlyAnyPhase(g, playerId) ==
  IF playerId \notin 1..Len(g.players) THEN Throw(g)
  ELSE IF g.currentPlayerIndex + 1 # playerId THEN Throw(g)
  ELSE IF g.pendingAction # Null THEN Throw(g)
  ELSE IF Len(g.players[playerId].hand) > 7
    THEN Ok([g EXCEPT !.turnPhase = "discard"])
    ELSE Ok(endTurn(g))

\* endTurnEarly(state, playerId)
endTurnEarly(g, playerId) ==
  IF playerId \notin 1..Len(g.players) THEN Throw(g)
  ELSE IF g.currentPlayerIndex + 1 # playerId THEN Throw(g)
  ELSE IF g.turnPhase \notin {"action", "finishing"} THEN Throw(g)
  ELSE IF g.pendingAction # Null THEN Throw(g)
  ELSE IF Len(g.players[playerId].hand) > 7
    THEN Ok([g EXCEPT !.turnPhase = "discard"])
    ELSE Ok(endTurn(g))

\* rearrangeProperty(state, playerId, cardId, fromColor, toColor)
\* A faulty variant of rearrangeProperty that keeps a source set it has
\* emptied; WildcardRelocation tells it from the engine's.
rearrangePropertyKeepEmpty(g, playerId, cardId, fromColor, toColor) ==
  LET sets == g.players[playerId].properties
      fk == SetIndex(sets, fromColor)
      cardIndex == IndexOf(sets[fk].cards, cardId)
      sets1 == [sets EXCEPT ![fk] = updatePropertySetCompletion(
                                      [@ EXCEPT !.cards = RemoveAt(@, cardIndex)])]
      tk == SetIndex(sets1, toColor)
      sets2 == IF tk = 0 THEN Append(sets1, NewSet(toColor)) ELSE sets1
      tk2 == IF tk = 0 THEN Len(sets2) ELSE tk
      sets3 == [sets2 EXCEPT ![tk2] = updatePropertySetCompletion(
                                        [@ EXCEPT !.cards = Append(@, cardId)])]
  IN IF playerId \notin 1..Len(g.players) THEN Throw(g)
     ELSE IF g.currentPlayerIndex + 1 # playerId THEN Throw(g)
     ELSE IF g.turnPhase \notin {"action", "finishing"} THEN Throw(g)
     ELSE IF fk = 0 THEN Throw(g)
     ELSE IF cardIndex = 0 THEN Throw(g)
     ELSE IF ~Card[cardId].isWildcard THEN Throw(g)
     ELSE IF toColor \notin Card[cardId].wildcardColors THEN Throw(g)
     ELSE Ok(checkWinner([g EXCEPT !.players[playerId].properties = sets3]))

rearrangeProperty(g, playerId, cardId, fromColor, toColor) ==
  LET sets == g.players[playerId].properties
      fk == SetIndex(sets, fromColor)
      cardIndex == IndexOf(sets[fk].cards, cardId)
      \* Remove from source set
      sets1 == [sets EXCEPT ![fk] = updatePropertySetCompletion(
                                      [@ EXCEPT !.cards = RemoveAt(@, cardIndex)])]
      \* Add to target set (create if doesn't exist)
      tk == SetIndex(sets1, toColor)
      sets2 == IF tk = 0 THEN Append(sets1, NewSet(toColor)) ELSE sets1
      tk2 == IF tk = 0 THEN Len(sets2) ELSE tk
      sets3 == [sets2 EXCEPT ![tk2] = updatePropertySetCompletion(
                                        [@ EXCEPT !.cards = Append(@, cardId)])]
  IN IF playerId \notin 1..Len(g.players) THEN Throw(g)
     ELSE IF g.currentPlayerIndex + 1 # playerId THEN Throw(g)
     ELSE IF g.turnPhase \notin {"action", "finishing"} THEN Throw(g)
     ELSE IF fk = 0 THEN Throw(g)
     ELSE IF cardIndex = 0 THEN Throw(g)
     ELSE IF ~Card[cardId].isWildcard THEN Throw(g)
     ELSE IF toColor \notin Card[cardId].wildcardColors THEN Throw(g)
     ELSE Ok(checkWinner(
               [g EXCEPT !.players[playerId].properties = FilterNonEmpty(sets3)]))

(***************************************************************************)
(* gameLogic.ts: the match life cycle                                      *)
(***************************************************************************)
\* createGameState(roomCode); deck is the shuffled catalog.
createGameState(deck) ==
  [players |-> <<>>, currentPlayerIndex |-> 0, deck |-> deck,
   discardPile |-> <<>>, phase |-> "waiting", turnPhase |-> "draw",
   actionsRemaining |-> 3, pendingAction |-> Null, winner |-> 0]

\* addPlayer(state, name, socketId)
addPlayer(g) == [g EXCEPT !.players = Append(@, NewPlayer)]

RECURSIVE Deal(_, _)
\* The dealing loop of startGame from participant i on: each participant
\* gets fresh, empty holdings and pops 5 cards (as many as the deck has).
Deal(g, i) ==
  IF i > Len(g.players) THEN g
  ELSE LET n == Min(5, Len(g.deck))
           popped == [j \in 1..n |-> g.deck[Len(g.deck) + 1 - j]]
       IN Deal([g EXCEPT !.players[i] = [NewPlayer EXCEPT !.hand = popped],
                         !.deck = SubSeq(@, 1, Len(@) - n)],
               i + 1)

\* A faulty variant of startGame that lets six participants in;
\* StartGameContract tells it from the engine's.
startGameUpToSix(g, catalog) ==
  IF Len(g.players) < 2 THEN {Throw(g)}
  ELSE IF Len(g.players) > 6 THEN {Throw(g)}
  ELSE {Ok(Deal([g EXCEPT !.deck = d,
                          !.discardPile = <<>>,
                          !.phase = "playing",
                          !.turnPhase = "draw",
                          !.currentPlayerIndex = 0,
                          !.actionsRemaining = 3], 1)) :
          d \in shuffleDeck(catalog)}

\* startGame(state), with createDeck() returning the cards of catalog: the
\* set of outcomes, one per shuffle.
startGame(g, catalog) ==
  IF Len(g.players) < 2 THEN {Throw(g)}
  ELSE IF Len(g.players) > 5 THEN {Throw(g)}
  ELSE {Ok(Deal([g EXCEPT !.deck = d,
                          !.discardPile = <<>>,
                          !.phase = "playing",
                          !.turnPhase = "draw",
                          !.currentPlayerIndex = 0,
                          !.actionsRemaining = 3], 1)) :
          d \in shuffleDeck(catalog)}

(***************************************************************************)
(* gameLogic.ts: the view sent to a participant                            *)
(***************************************************************************)
\* The id of the card that stands for a hidden one:
\* { id: 'hidden', type: 'money', name: 'Hidden', value: 0 }
Hidden == "hidden"

\* A faulty variant of getPublicGameState that hides nothing; PublicView
\* tells it from the engine's.
getPublicGameStateOpen(g, forPlayerId) == g

\* getPublicGameState(state, forPlayerId); forPlayerId 0 is undefined.
getPublicGameState(g, forPlayerId) ==
  [g EXCEPT !.players =
     [i \in 1..Len(g.players) |->
        [g.players[i] EXCEPT !.hand =
           IF i = forPlayerId THEN @ ELSE [j \in 1..Len(@) |-> Hidden]]]]

(***************************************************************************)
(* The state machine                                                       *)
(***************************************************************************)
VARIABLES
  players,            \* GameState.players: <<[hand, properties, bank], ...>>
  currentPlayerIndex, \* GameState.currentPlayerIndex (0-based)
  deck,               \* GameState.deck, the draw pile; its top is its end
  discardPile,        \* GameState.discardPile
  phase,              \* GameState.phase: waiting, playing, finished
  turnPhase,          \* GameState.turnPhase
  actionsRemaining,   \* GameState.actionsRemaining
  pendingAction,      \* GameState.pendingAction, or Null
  winner,             \* GameState.winner, or 0
  catalog,            \* the cards createDeck() returns, in its order
  starts,             \* how many times startGame has dealt
  turns,              \* how many times the turn has passed on
  played,             \* how many playCard calls have returned in this turn
  view,               \* the view that the last call emitted, if it was
                      \* getPublicGameState, or Null
  last                \* the last call: which operation, by whom, and
                      \* whether it returned (ok) or threw

gameVars ==
  <<players, currentPlayerIndex, deck, discardPile, phase, turnPhase,
    actionsRemaining, pendingAction, winner>>

vars == <<gameVars, catalog, starts, turns, played, view, last>>

\* The GameState object.
State ==
  [players |-> players, currentPlayerIndex |-> currentPlayerIndex,
   deck |-> deck, discardPile |-> discardPile, phase |-> phase,
   turnPhase |-> turnPhase, actionsRemaining |-> actionsRemaining,
   pendingAction |-> pendingAction, winner |-> winner]

\* The GameState object is g.
Is(g) ==
  /\ players = g.players
  /\ currentPlayerIndex = g.currentPlayerIndex
  /\ deck = g.deck
  /\ discardPile = g.discardPile
  /\ phase = g.phase
  /\ turnPhase = g.turnPhase
  /\ actionsRemaining = g.actionsRemaining
  /\ pendingAction = g.pendingAction
  /\ winner = g.winner

\* The GameState object is left as g.
Becomes(g) ==
  /\ players' = g.players
  /\ currentPlayerIndex' = g.currentPlayerIndex
  /\ deck' = g.deck
  /\ discardPile' = g.discardPile
  /\ phase' = g.phase
  /\ turnPhase' = g.turnPhase
  /\ actionsRemaining' = g.actionsRemaining
  /\ pendingAction' = g.pendingAction
  /\ winner' = g.winner

\* What last says of a call: its caller and its kind of response are kept
\* for a call that returned, and left out (0, "") for one that threw; paid
\* and selected are filled in for an accepting response only.
Call(op, by, how, ok) ==
  IF ok THEN [op |-> op, by |-> by, how |-> how, ok |-> TRUE,
              paid |-> <<>>, selected |-> "none"]
  ELSE [op |-> op, by |-> 0, how |-> "", ok |-> FALSE,
        paid |-> <<>>, selected |-> "none"]

PlayerIds == 1..Len(players)

(***************************************************************************)
(* The inputs of the calls.  A field that the call never reads for the     *)
(* card or the pending action at hand is left at its default.              *)
(***************************************************************************)
\* The colors a caller names: those of the catalog's property cards, with
\* both colors of a two-color wildcard.
InputColors ==
  UNION {IF Cardinality(Card[catalog[i]].wildcardColors) = 2
           THEN Card[catalog[i]].wildcardColors
           ELSE {Card[catalog[i]].color} :
         i \in {j \in 1..Len(catalog) : Card[catalog[j]].type = "property"}}

ColorOrNone == InputColors \cup {"none"}
PlayerOrNone == 0..Len(players)

\* The cards lying in the sets of participant p.
SetCards(p) == Range(Flatten(players[p].properties))

\* The targets tried for playing card c from the hand of p.
Targets(p, c) ==
  LET card == Card[c]
      asBank == {[NoTarget EXCEPT !.asBank = TRUE]}
  IN IF card.type = "money" THEN {NoTarget}
     ELSE IF card.type = "property"
       THEN asBank \cup {[NoTarget EXCEPT !.propertySetColor = col] :
                           col \in ColorOrNone}
     ELSE IF card.type = "rent"
       THEN asBank \cup
            {[NoTarget EXCEPT !.propertySetColor = col, !.useDoubleRent = dbl,
                              !.playerId = q] :
               col \in ColorOrNone, dbl \in BOOLEAN,
               q \in (IF card.isWildRent THEN PlayerOrNone ELSE {0})}
     ELSE IF card.action \in {"passGo", "birthday", "doubleRent", "justSayNo"}
       THEN asBank \cup {NoTarget}
     ELSE IF card.action = "debtCollector"
       THEN asBank \cup {[NoTarget EXCEPT !.playerId = q] : q \in PlayerOrNone}
     ELSE IF card.action \in {"slyDeal", "dealBreaker"}
       THEN asBank \cup
            {[NoTarget EXCEPT !.playerId = q, !.propertySetColor = col] :
               q \in PlayerOrNone, col \in ColorOrNone}
     ELSE IF card.action = "forcedDeal"
       THEN asBank \cup
            {[NoTarget EXCEPT !.playerId = q, !.propertySetColor = col,
                              !.giveCardId = give, !.giveFromSet = from] :
               q \in PlayerOrNone, col \in ColorOrNone,
               give \in SetCards(p) \cup {"none"}, from \in ColorOrNone}
     ELSE \* house, hotel
          asBank \cup {[NoTarget EXCEPT !.propertySetColor = col] :
                         col \in ColorOrNone}

\* The lists of at most n ids drawn from ids (an id may be named twice).
RECURSIVE Lists(_, _)
Lists(ids, n) ==
  IF n = 0 THEN {<<>>}
  ELSE LET shorter == Lists(ids, n - 1)
       IN shorter \cup {Append(l, c) : l \in shorter, c \in ids}

\* The responses tried by participant p.
Responses(p) ==
  LET pa == pendingAction
      assets == Range(players[p].bank) \cup SetCards(p)
      payments == IF pa # Null /\ pa.amount # 0
                    THEN Lists(assets, MaxPayment) ELSE {<<>>}
      selected == IF pa # Null /\ pa.type \in {"slyDeal", "forcedDeal"}
                    THEN SetCards(p) \cup {"none"} ELSE {"none"}
  IN {[NoResponse EXCEPT !.useJustSayNo = TRUE], NoResponse}
     \cup {[NoResponse EXCEPT !.accept = TRUE, !.paymentCardIds = l,
                              !.selectedCardId = sel] :
             l \in payments, sel \in selected}

How(response) ==
  IF response.useJustSayNo THEN "refuse"
  ELSE IF response.accept THEN "accept" ELSE "decline"

\* The card id lists tried by discardCards: lists of hand cards, and lists
\* naming a card that is not in the hand.
DiscardLists(p) ==
  LET need == Len(players[p].hand) - 7
  IN IF turnPhase = "discard" /\ currentPlayerIndex + 1 = p
       THEN Lists(Range(players[p].hand) \cup {"none"}, Min(need + 1, 2))
       ELSE {<<>>}

(***************************************************************************)
(* The actions: one per exported operation                                 *)
(***************************************************************************)
\* A call of op that leaves g begins a participant-turn: startGame, and the
\* discardCards or endTurnEarly that ran endTurn.
TurnBegins(g, op) ==
  \/ op = "startGame"
  \/ op \in {"discardCards", "endTurnEarly"} /\ g.turnPhase = "draw"

\* The call left the GameState object as r.g and returned or threw (r.ok);
\* call is what last says of it.
Leaves(r, op, call) ==
  /\ Becomes(r.g)
  /\ last' = call
  /\ turns' = IF r.g.currentPlayerIndex # currentPlayerIndex /\ op # "startGame"
                THEN turns + 1 ELSE turns
  /\ starts' = IF op = "startGame" /\ r.ok THEN starts + 1 ELSE starts
  /\ played' = IF r.ok /\ TurnBegins(r.g, op) THEN 0
               ELSE IF r.ok /\ op = "playCard" THEN played + 1
               ELSE played
  /\ view' = Null
  /\ UNCHANGED catalog

Returns(r, op, by, how) == Leaves(r, op, Call(op, by, how, r.ok))

\* What last says of a response: for one that accepted and returned, also
\* the cards it offered in payment and the card it selected.
Answer(by, response, ok) ==
  IF ok /\ response.accept
    THEN [Call("respondToAction", by, How(response), ok) EXCEPT
            !.paid = response.paymentCardIds,
            !.selected = response.selectedCardId]
    ELSE Call("respondToAction", by, How(response), ok)

AddPlayer ==
  /\ phase = "waiting"          \* gameSocket.ts joinRoom
  /\ Len(players) < MaxPlayers
  /\ Returns(Ok(addPlayer(State)), "addPlayer", 0, "")

StartGame ==
  /\ starts < MaxStarts
  /\ \E r \in startGame(State, catalog) : Returns(r, "startGame", 0, "")

DrawCards ==
  \E p \in PlayerIds :
    \E r \in drawCards(State, p) : Returns(r, "drawCards", p, "")

PlayCard ==
  /\ actionsRemaining < MaxBudget
  /\ \E p \in PlayerIds :
       \E c \in Range(players[p].hand) :
         \E t \in Targets(p, c) :
           \E r \in playCard(State, p, c, t) : Returns(r, "playCard", p, "")

RespondToAction ==
  \E p \in PlayerIds :
    \E response \in Responses(p) :
      Leaves(respondToAction(State, p, response), "respondToAction",
             Answer(p, response, respondToAction(State, p, response).ok))

DiscardCards ==
  /\ turns < MaxTurns
  /\ \E p \in PlayerIds :
       \E cardIds \in DiscardLists(p) :
         Returns(discardCards(State, p, cardIds), "discardCards", p, "")

EndTurnEarly ==
  /\ turns < MaxTurns
  /\ \E p \in PlayerIds :
       Returns(endTurnEarly(State, p), "endTurnEarly", p, "")

RearrangeProperty ==
  \E p \in PlayerIds :
    \E fromColor \in ColorOrNone, toColor \in InputColors :
      \E c \in SetCards(p) :
        Returns(rearrangeProperty(State, p, c, fromColor, toColor),
                "rearrangeProperty", p, "")

\* The view of the match is computed for participant v (for no one, v = 0)
\* and emitted, as the handlers do for every participant after a call.
GetPublicGameState ==
  \E v \in PlayerOrNone :
    /\ view' = getPublicGameState(State, v)
    /\ last' = Call("getPublicGameState", v, "", TRUE)
    /\ UNCHANGED <<gameVars, catalog, starts, turns, played>>

\* The six operations of a match under way.
NextPlay ==
  \/ DrawCards
  \/ PlayCard
  \/ RespondToAction
  \/ DiscardCards
  \/ EndTurnEarly
  \/ RearrangeProperty

Next ==
  \/ AddPlayer
  \/ StartGame
  \/ NextPlay

(***************************************************************************)
(* Spec: the match from its creation, with a catalog of three cards.       *)
(***************************************************************************)
LobbyCatalog == <<"b1", "jsn1", "bday">>

Init ==
  /\ catalog = LobbyCatalog
  /\ \E d \in shuffleDeck(catalog) : Is(createGameState(d))
  /\ starts = 0
  /\ turns = 0
  /\ played = 0
  /\ view = Null
  /\ last = Call("createGameState", 0, "", TRUE)

Spec == Init /\ [][Next]_vars

(***************************************************************************)
(* SpecStart: starting a match with the whole deck of createDeck(), whose  *)
(* i-th card has the id i, from a lobby of 0 to MaxSeats participants; the *)
(* cards stay in hands.                                                    *)
(***************************************************************************)
DeckCatalog == [i \in 1..Len(createDeck) |-> i]

RECURSIVE Seats(_, _)
\* addPlayer called n times.
Seats(g, n) == IF n = 0 THEN g ELSE addPlayer(Seats(g, n - 1))

InitStart ==
  /\ catalog = DeckCatalog
  /\ \E d \in shuffleDeck(catalog) :
       \E n \in 0..MaxSeats : Is(Seats(createGameState(d), n))
  /\ starts = 0
  /\ turns = 0
  /\ played = 0
  /\ view = Null
  /\ last = Call("createGameState", 0, "", TRUE)

NextStart ==
  \/ StartGame
  \/ DrawCards
  \/ EndTurnEarly

SpecStart == InitStart /\ [][NextStart]_vars

(***************************************************************************)
(* Matches under way.  Each starts from a state that startGame and the     *)
(* calls listed with it lead to when createDeck() returns the cards named, *)
(* and goes on with the six operations of play.                            *)
(***************************************************************************)
CompleteSet(color, cards) ==
  [color |-> color, cards |-> cards, hasHouse |-> FALSE, hasHotel |-> FALSE,
   isComplete |-> TRUE]

OpenSet(color, cards) ==
  [color |-> color, cards |-> cards, hasHouse |-> FALSE, hasHotel |-> FALSE,
   isComplete |-> FALSE]

\* The match is in state g, which the call recorded as call left, with n
\* cards played so far in the turn.
MidTurn(cat, g, call, n) ==
  /\ catalog = cat
  /\ Is(g)
  /\ starts = 1
  /\ turns = 0
  /\ played = n
  /\ view = Null
  /\ last = call

\* The match is in state g at the beginning of a turn.
Underway(cat, g, call) == MidTurn(cat, g, call, 0)

\* SpecPay: a debt collector against a participant worth 3, with all three
\* refusal cards in hands.  Participant 1 was dealt jsn1, b1, jsn3, m2, m1,
\* participant 2 dc, jsn2; participant 1 drew (from the empty pile), banked
\* m2, laid b1 and ended the turn.
PayCatalog == <<"jsn2", "dc", "m1", "m2", "jsn3", "b1", "jsn1">>

PayState ==
  [players |->
     <<[hand |-> <<"jsn1", "jsn3", "m1">>,
        properties |-> <<OpenSet("brown", <<"b1">>)>>,
        bank |-> <<"m2">>],
       [hand |-> <<"dc", "jsn2">>, properties |-> <<>>, bank |-> <<>>]>>,
   currentPlayerIndex |-> 1, deck |-> <<>>, discardPile |-> <<>>,
   phase |-> "playing", turnPhase |-> "draw", actionsRemaining |-> 3,
   pendingAction |-> Null, winner |-> 0]

InitPay == Underway(PayCatalog, PayState, Call("endTurnEarly", 1, "", TRUE))

SpecPay == InitPay /\ [][NextPlay]_vars

\* SpecEndgame: participant 1 is one card short of a third complete set and
\* participant 2 holds both deal breakers.  Participant 1 was dealt b1, b2,
\* d1, d2, l1 and drew l2, l3, participant 2 was dealt u1, u2, db1, db2, m1;
\* in two turns each, participant 1 laid b1, b2, d1, d2, l1, l2 and
\* participant 2 laid u1, u2.
EndgameCatalog ==
  <<"l3", "l2", "m1", "db2", "db1", "u2", "u1", "l1", "d2", "d1", "b2", "b1">>

EndgameState ==
  [players |->
     <<[hand |-> <<"l3">>,
        properties |-> <<CompleteSet("brown", <<"b1", "b2">>),
                         CompleteSet("darkBlue", <<"d1", "d2">>),
                         OpenSet("lightBlue", <<"l1", "l2">>)>>,
        bank |-> <<>>],
       [hand |-> <<"db1", "db2", "m1">>,
        properties |-> <<CompleteSet("utility", <<"u1", "u2">>)>>,
        bank |-> <<>>]>>,
   currentPlayerIndex |-> 0, deck |-> <<>>, discardPile |-> <<>>,
   phase |-> "playing", turnPhase |-> "draw", actionsRemaining |-> 3,
   pendingAction |-> Null, winner |-> 0]

InitEndgame ==
  Underway(EndgameCatalog, EndgameState, Call("endTurnEarly", 2, "", TRUE))

SpecEndgame == InitEndgame /\ [][NextPlay]_vars

\* SpecFullHand: participant 1 holds eight cards with one play left, a
\* brown card and the brown/light blue wildcard laid.  Participant 1 was
\* dealt b1, go, m1, m2, m3, drew m4, m5 and laid b1; participant 2 was
\* dealt d1, m1b, m1c, m1d, m2b, drew m2c, m3b, laid d1 and banked m1b and
\* m1c; participant 1 then drew wbl, b2, played go (drawing m10, m4b) and
\* laid wbl as light blue.  One more passing of the turn is explored.
FullHandCatalog ==
  <<"m4b", "m10", "b2", "wbl", "m3b", "m2c", "m5", "m4", "m2b", "m1d", "m1c",
    "m1b", "d1", "m3", "m2", "m1", "go", "b1">>

FullHandState ==
  [players |->
     <<[hand |-> <<"m1", "m2", "m3", "m4", "m5", "b2", "m10", "m4b">>,
        properties |-> <<OpenSet("brown", <<"b1">>),
                         OpenSet("lightBlue", <<"wbl">>)>>,
        bank |-> <<>>],
       [hand |-> <<"m1d", "m2b", "m2c", "m3b">>,
        properties |-> <<OpenSet("darkBlue", <<"d1">>)>>,
        bank |-> <<"m1b", "m1c">>]>>,
   currentPlayerIndex |-> 0, deck |-> <<>>, discardPile |-> <<"go">>,
   phase |-> "playing", turnPhase |-> "action", actionsRemaining |-> 1,
   pendingAction |-> Null, winner |-> 0]

InitFullHand ==
  /\ catalog = FullHandCatalog
  /\ Is(FullHandState)
  /\ starts = 1
  /\ turns = MaxTurns - 1
  /\ played = 2
  /\ view = Null
  /\ last = Call("playCard", 1, "", TRUE)

SpecFullHand == InitFullHand /\ [][NextPlay]_vars

\* SpecBudget: a match just started, in which participant 1 was dealt a
\* refusal card and four money cards and participant 2 the last card, b1.
BudgetCatalog == <<"b1", "m5", "m3", "m2", "m1", "jsn1">>

BudgetState ==
  [players |->
     <<[hand |-> <<"jsn1", "m1", "m2", "m3", "m5">>,
        properties |-> <<>>, bank |-> <<>>],
       [hand |-> <<"b1">>, properties |-> <<>>, bank |-> <<>>]>>,
   currentPlayerIndex |-> 0, deck |-> <<>>, discardPile |-> <<>>,
   phase |-> "playing", turnPhase |-> "draw", actionsRemaining |-> 3,
   pendingAction |-> Null, winner |-> 0]

InitBudget ==
  Underway(BudgetCatalog, BudgetState, Call("startGame", 0, "", TRUE))

SpecBudget == InitBudget /\ [][NextPlay]_vars

\* SpecBreak: participant 1 has a complete brown set and participant 2
\* holds a deal breaker and the brown/light blue wildcard.  Participant 1
\* was dealt b1, b2, m1, m2, m3 and participant 2 db1, wbl; participant 1
\* drew (from the empty pile), laid b1 and b2, banked m1 and ended the turn.
BreakCatalog == <<"wbl", "db1", "m3", "m2", "m1", "b2", "b1">>

BreakState ==
  [players |->
     <<[hand |-> <<"m2", "m3">>,
        properties |-> <<CompleteSet("brown", <<"b1", "b2">>)>>,
        bank |-> <<"m1">>],
       [hand |-> <<"db1", "wbl">>, properties |-> <<>>, bank |-> <<>>]>>,
   currentPlayerIndex |-> 1, deck |-> <<>>, discardPile |-> <<>>,
   phase |-> "playing", turnPhase |-> "draw", actionsRemaining |-> 3,
   pendingAction |-> Null, winner |-> 0]

InitBreak ==
  Underway(BreakCatalog, BreakState, Call("endTurnEarly", 1, "", TRUE))

SpecBreak == InitBreak /\ [][NextPlay]_vars

\* SpecView: the same match, with the views that are emitted.
NextView ==
  \/ NextPlay
  \/ GetPublicGameState

SpecView == InitBreak /\ [][NextView]_vars

\* SpecRent: participant 1 has a complete brown set with a house and a
\* hotel laid and holds a brown/light blue rent card and a double-rent
\* card; participant 2 has banked all its cards.  Participant 1 was dealt
\* b1, wbl, house, hotel, rbl and drew dbl, participant 2 was dealt m1, m2,
\* m3, m5, m1b; in two turns each, participant 1 laid b1, wbl as brown, the
\* house and the hotel and participant 2 banked its five cards.  One more
\* passing of the turn is explored.
RentCatalog ==
  <<"dbl", "m1b", "m5", "m3", "m2", "m1", "rbl", "hotel", "house", "wbl",
    "b1">>

RentState ==
  [players |->
     <<[hand |-> <<"rbl", "dbl">>,
        properties |->
          <<[CompleteSet("brown", <<"b1", "wbl", "house", "hotel">>)
               EXCEPT !.hasHouse = TRUE, !.hasHotel = TRUE]>>,
        bank |-> <<>>],
       [hand |-> <<>>, properties |-> <<>>,
        bank |-> <<"m1", "m2", "m3", "m5", "m1b">>]>>,
   currentPlayerIndex |-> 0, deck |-> <<>>, discardPile |-> <<>>,
   phase |-> "playing", turnPhase |-> "draw", actionsRemaining |-> 3,
   pendingAction |-> Null, winner |-> 0]

InitRent ==
  /\ catalog = RentCatalog
  /\ Is(RentState)
  /\ starts = 1
  /\ turns = MaxTurns - 1
  /\ played = 0
  /\ view = Null
  /\ last = Call("endTurnEarly", 2, "", TRUE)

SpecRent == InitRent /\ [][NextPlay]_vars

\* SpecLongHand: participant 1 holds eight cards with two plays left and
\* its debt collector is pending against participant 2.  Participant 1 was
\* dealt dc, m1, m2, m3, m4, drew m5, m10 and ended the turn; participant 2
\* was dealt m1b, m1c, m1d, m2b, m2c, drew m3b, m4b, banked m1b, m1c, m1d
\* and ended the turn; participant 1 then drew bday, b1 and played dc
\* against participant 2.  One more passing of the turn is explored.
LongHandCatalog ==
  <<"b1", "bday", "m4b", "m3b", "m10", "m5", "m2c", "m2b", "m1d", "m1c",
    "m1b", "m4", "m3", "m2", "m1", "dc">>

LongHandState ==
  [players |->
     <<[hand |-> <<"m1", "m2", "m3", "m4", "m5", "m10", "bday", "b1">>,
        properties |-> <<>>, bank |-> <<>>],
       [hand |-> <<"m2b", "m2c", "m3b", "m4b">>, properties |-> <<>>,
        bank |-> <<"m1b", "m1c", "m1d">>]>>,
   currentPlayerIndex |-> 0, deck |-> <<>>, discardPile |-> <<>>,
   phase |-> "playing", turnPhase |-> "responding", actionsRemaining |-> 2,
   pendingAction |->
     [PendingDefaults EXCEPT !.type = "debtCollector", !.fromPlayerId = 1,
                             !.toPlayerId = 2, !.amount = 5, !.card = "dc"],
   winner |-> 0]

InitLongHand ==
  /\ catalog = LongHandCatalog
  /\ Is(LongHandState)
  /\ starts = 1
  /\ turns = MaxTurns - 1
  /\ played = 1
  /\ view = Null
  /\ last = Call("playCard", 1, "", TRUE)

SpecLongHand == InitLongHand /\ [][NextPlay]_vars

\* SpecBroadcast: three participants; participant 1 holds a birthday
\* card, participant 2 a refusal card, and all three have something to pay
\* with.  Participant 1 was dealt bday, m1, m2, m3, m4, participant 2 jsn1,
\* m1b, m1c, m1d, m2b and participant 3 b1; with nothing to draw,
\* participant 1 banked m1, m2, m3, participant 2 m1b, m1c, m1d, participant
\* 3 laid b1, each ending the turn; participant 1 then drew (from the empty
\* pile).  One more passing of the turn is explored.
BroadcastCatalog ==
  <<"b1", "m2b", "m1d", "m1c", "m1b", "jsn1", "m4", "m3", "m2", "m1", "bday">>

BroadcastState ==
  [players |->
     <<[hand |-> <<"bday", "m4">>, properties |-> <<>>,
        bank |-> <<"m1", "m2", "m3">>],
       [hand |-> <<"jsn1", "m2b">>, properties |-> <<>>,
        bank |-> <<"m1b", "m1c", "m1d">>],
       [hand |-> <<>>, properties |-> <<OpenSet("brown", <<"b1">>)>>,
        bank |-> <<>>]>>,
   currentPlayerIndex |-> 0, deck |-> <<>>, discardPile |-> <<>>,
   phase |-> "playing", turnPhase |-> "action", actionsRemaining |-> 3,
   pendingAction |-> Null, winner |-> 0]

InitBroadcast ==
  /\ catalog = BroadcastCatalog
  /\ Is(BroadcastState)
  /\ starts = 1
  /\ turns = MaxTurns - 1
  /\ played = 0
  /\ view = Null
  /\ last = Call("drawCards", 1, "", TRUE)

SpecBroadcast == InitBroadcast /\ [][NextPlay]_vars

\* SpecDiscard: the match of SpecLongHand, in which participant 1, having
\* drawn bday and b1, ended the turn at once with nine cards in hand and
\* has two of them to discard.  One more passing of the turn is explored.
DiscardState ==
  [players |->
     <<[hand |-> <<"dc", "m1", "m2", "m3", "m4", "m5", "m10", "bday", "b1">>,
        properties |-> <<>>, bank |-> <<>>],
       [hand |-> <<"m2b", "m2c", "m3b", "m4b">>, properties |-> <<>>,
        bank |-> <<"m1b", "m1c", "m1d">>]>>,
   currentPlayerIndex |-> 0, deck |-> <<>>, discardPile |-> <<>>,
   phase |-> "playing", turnPhase |-> "discard", actionsRemaining |-> 3,
   pendingAction |-> Null, winner |-> 0]

InitDiscard ==
  /\ catalog = LongHandCatalog
  /\ Is(DiscardState)
  /\ starts = 1
  /\ turns = MaxTurns - 1
  /\ played = 0
  /\ view = Null
  /\ last = Call("endTurnEarly", 1, "", TRUE)

SpecDiscard == InitDiscard /\ [][NextPlay]_vars

\* SpecDeal: participant 1 holds a sly deal and a forced deal and has a
\* brown card laid; participant 2 has two light blue cards and a complete
\* dark blue set laid.  Participant 1 was dealt sly, fd, b1, m1, m2 and
\* participant 2 l1, l2, d1, d2, m1b; with nothing to draw, participant 1
\* laid b1 and banked m1, m2, participant 2 laid l1, l2, d1, participant 1
\* passed, and participant 2 laid d2 and banked m1b.  One more passing of
\* the turn is explored.
DealCatalog ==
  <<"m1b", "d2", "d1", "l2", "l1", "m2", "m1", "b1", "fd", "sly">>

DealState ==
  [players |->
     <<[hand |-> <<"sly", "fd">>,
        properties |-> <<OpenSet("brown", <<"b1">>)>>,
        bank |-> <<"m1", "m2">>],
       [hand |-> <<>>,
        properties |-> <<OpenSet("lightBlue", <<"l1", "l2">>),
                         CompleteSet("darkBlue", <<"d1", "d2">>)>>,
        bank |-> <<"m1b">>]>>,
   currentPlayerIndex |-> 0, deck |-> <<>>, discardPile |-> <<>>,
   phase |-> "playing", turnPhase |-> "draw", actionsRemaining |-> 3,
   pendingAction |-> Null, winner |-> 0]

InitDeal ==
  /\ catalog = DealCatalog
  /\ Is(DealState)
  /\ starts = 1
  /\ turns = MaxTurns - 1
  /\ played = 0
  /\ view = Null
  /\ last = Call("endTurnEarly", 2, "", TRUE)

SpecDeal == InitDeal /\ [][NextPlay]_vars

\* SpecModifier: participant 1 holds two houses and a hotel and has a
\* complete brown set; participant 2 has a complete dark blue set.
\* Participant 1 was dealt b1, b2, house, house2, hotel and participant 2
\* d1, d2; with nothing to draw, participant 1 laid b1 and b2 and
\* participant 2 d1 and d2.  One more passing of the turn is explored.
ModifierCatalog == <<"d2", "d1", "hotel", "house2", "house", "b2", "b1">>

ModifierState ==
  [players |->
     <<[hand |-> <<"house", "house2", "hotel">>,
        properties |-> <<CompleteSet("brown", <<"b1", "b2">>)>>,
        bank |-> <<>>],
       [hand |-> <<>>,
        properties |-> <<CompleteSet("darkBlue", <<"d1", "d2">>)>>,
        bank |-> <<>>]>>,
   currentPlayerIndex |-> 0, deck |-> <<>>, discardPile |-> <<>>,
   phase |-> "playing", turnPhase |-> "draw", actionsRemaining |-> 3,
   pendingAction |-> Null, winner |-> 0]

InitModifier ==
  /\ catalog = ModifierCatalog
  /\ Is(ModifierState)
  /\ starts = 1
  /\ turns = MaxTurns - 1
  /\ played = 0
  /\ view = Null
  /\ last = Call("endTurnEarly", 2, "", TRUE)

SpecModifier == InitModifier /\ [][NextPlay]_vars

\* SpecWild: a match just started with a catalog of three cards, all dealt
\* to participant 1: a dark blue card, the brown/light blue wildcard and a
\* money card.
WildCatalog == <<"m1", "wbl", "d1">>

WildState ==
  [players |->
     <<[hand |-> <<"d1", "wbl", "m1">>, properties |-> <<>>, bank |-> <<>>],
       [hand |-> <<>>, properties |-> <<>>, bank |-> <<>>]>>,
   currentPlayerIndex |-> 0, deck |-> <<>>, discardPile |-> <<>>,
   phase |-> "playing", turnPhase |-> "draw", actionsRemaining |-> 3,
   pendingAction |-> Null, winner |-> 0]

InitWild == Underway(WildCatalog, WildState, Call("startGame", 0, "", TRUE))

SpecWild == InitWild /\ [][NextPlay]_vars

\* SpecDraw: participant 1 has ended its second turn with nine money cards
\* and must discard two; participant 2 has emptied its hand and draws next;
\* the draw pile holds three cards.
DrawCatalog ==
  <<"m2b", "m2c", "m3b", "m1d", "m1c", "dc", "hotel", "m1b", "m10", "house2",
    "house", "bday", "b1", "m4b", "m5", "m4", "m3", "m2", "m1">>

DrawState ==
  [players |->
     <<[hand |-> <<"m1", "m2", "m3", "m4", "m5", "m10", "m1b", "m1c", "m1d">>,
        properties |-> <<>>, bank |-> <<>>],
       [hand |-> <<>>, properties |-> <<OpenSet("brown", <<"b1">>)>>,
        bank |-> <<"m4b", "bday">>]>>,
   currentPlayerIndex |-> 0, deck |-> <<"m2b", "m2c", "m3b">>,
   discardPile |-> <<>>,
   phase |-> "playing", turnPhase |-> "discard", actionsRemaining |-> 3,
   pendingAction |-> Null, winner |-> 0]

InitDraw ==
  /\ catalog = DrawCatalog
  /\ Is(DrawState)
  /\ starts = 1
  /\ turns = MaxTurns - 1
  /\ played = 0
  /\ view = Null
  /\ last = Call("endTurnEarly", 1, "", TRUE)

SpecDraw == InitDraw /\ [][NextPlay]_vars

\* SpecReverse: in its first turn participant 1 has banked a money card,
\* laid a brown card and played a debt collector against participant 2;
\* both hold a refusal card.
ReverseCatalog == <<"m1", "jsn1", "m4", "b1", "m2", "jsn2", "dc">>

ReverseState ==
  [players |->
     <<[hand |-> <<"jsn2", "m4">>,
        properties |-> <<OpenSet("brown", <<"b1">>)>>, bank |-> <<"m2">>],
       [hand |-> <<"jsn1", "m1">>, properties |-> <<>>, bank |-> <<>>]>>,
   currentPlayerIndex |-> 0, deck |-> <<>>, discardPile |-> <<>>,
   phase |-> "playing", turnPhase |-> "responding", actionsRemaining |-> 0,
   pendingAction |->
     [PendingDefaults EXCEPT !.type = "debtCollector", !.fromPlayerId = 1,
                             !.toPlayerId = 2, !.amount = 5, !.card = "dc"],
   winner |-> 0]

InitReverse ==
  MidTurn(ReverseCatalog, ReverseState, Call("playCard", 1, "", TRUE), 3)

SpecReverse == InitReverse /\ [][NextPlay]_vars

(***************************************************************************)
(* Properties                                                              *)
(***************************************************************************)
\* How often card c occurs in the sequence s.
Occurrences(s, c) == Cardinality({i \in 1..Len(s) : s[i] = c})

RECURSIVE Holdings(_)
\* The hands, banks and property sets of the participants pls, in a row.
Holdings(pls) ==
  IF pls = <<>> THEN <<>>
  ELSE Head(pls).hand \o Head(pls).bank \o Flatten(Head(pls).properties)
       \o Holdings(Tail(pls))

\* The draw pile, the discard pile and every hand, bank and property set.
Held == deck \o discardPile \o Holdings(players)

\* Participant p holds a refusal card in hand.
HoldsRefusal(p) ==
  \E i \in 1..Len(players[p].hand) : Card[players[p].hand[i]].action = "justSayNo"

\* The number of refusal cards in hands.
RefusalsInHands ==
  Cardinality({c \in CardIds :
                 /\ Card[c].action = "justSayNo"
                 /\ \E p \in PlayerIds : c \in Range(players[p].hand)})

\* This step is a call of op that returned.
Returned(op) == last'.op = op /\ last'.ok

\* Some participant holds three complete sets or more.
ThreeComplete == \E p \in PlayerIds : CompleteSets(players[p]) >= 3

\* C1: once the match has started, the draw pile, the discard pile and
\* all hands, banks and property sets together hold each card of the
\* catalog exactly as often as the catalog does.
CardConservation ==
  phase # "waiting" =>
    \A c \in CardIds : Occurrences(Held, c) = Occurrences(catalog, c)

\* C2: there is a pending action exactly when the turn phase is
\* 'responding'.
PendingIffResponding == (pendingAction # Null) <=> (turnPhase = "responding")

\* C3: after a playCard, respondToAction or rearrangeProperty that returned,
\* if a participant holds three complete sets the match is finished and the
\* winner holds three complete sets, and if none does no win is recorded by
\* the call.
WinDetectionImmediate ==
  [][(Returned("playCard") \/ Returned("respondToAction")
        \/ Returned("rearrangeProperty")) =>
       /\ ThreeComplete' =>
            /\ phase' = "finished"
            /\ winner' \in PlayerIds
            /\ CompleteSets(players'[winner']) >= 3
       /\ ~ThreeComplete' => (winner' = winner /\ phase' = phase)]_vars

\* C4: once a winner is recorded, the recorded winner never changes.
WinnerNeverChanges == [][winner # 0 => winner' = winner]_vars

\* C5: a playCard call that throws leaves the game state as it was.
RejectedPlayUnchanged ==
  [][(last'.op = "playCard" /\ ~last'.ok) => UNCHANGED gameVars]_vars

\* C6: when a participant who owes the answer to a pending action with an
\* amount A answers it without a refusal card, owns T > 0, and the call
\* returns, the participant has parted with cards worth at least min(A, T).
PaymentMinimum ==
  [][(/\ Returned("respondToAction")
      /\ last'.how # "refuse"
      /\ pendingAction # Null
      /\ pendingAction.amount # 0
      /\ last'.by # pendingAction.fromPlayerId
      /\ (pendingAction.multi \/ last'.by = pendingAction.toPlayerId)
      /\ TotalAssets(players[last'.by]) > 0) =>
       TotalAssets(players[last'.by]) - TotalAssets(players'[last'.by])
         >= Min(pendingAction.amount, TotalAssets(players[last'.by]))]_vars

\* C7: while the match is being played, the current index changes only by
\* a discardCards or endTurnEarly call that returned, made with no pending
\* action, and then to the next index modulo the number of participants.
TurnMonotone ==
  [][(phase = "playing" /\ currentPlayerIndex' # currentPlayerIndex) =>
       /\ Returned("discardCards") \/ Returned("endTurnEarly")
       /\ pendingAction = Null
       /\ currentPlayerIndex' = (currentPlayerIndex + 1) % Len(players)]_vars

\* This step is a refusal, that returned, by the participant a single-target
\* pending action is addressed to.
RefusalByTarget ==
  /\ Returned("respondToAction")
  /\ last'.how = "refuse"
  /\ pendingAction # Null
  /\ ~pendingAction.multi
  /\ last'.by = pendingAction.toPlayerId

\* This step moves exactly one refusal card from the hand of participant p
\* to the top of the discard pile, and no other card.
OneRefusalDiscarded(p) ==
  /\ \E i \in 1..Len(players[p].hand) :
       /\ Card[players[p].hand[i]].action = "justSayNo"
       /\ players'[p].hand = RemoveAt(players[p].hand, i)
       /\ discardPile' = Append(discardPile, players[p].hand[i])
  /\ \A q \in PlayerIds \ {p} : players'[q].hand = players[q].hand
  /\ \A q \in PlayerIds :
       /\ players'[q].bank = players[q].bank
       /\ players'[q].properties = players[q].properties
  /\ deck' = deck

\* C8: when the target of a single-target pending action refuses and the
\* initiator holds no refusal card, the pending action is cleared by that
\* response, the turn phase is no longer 'responding', one refusal card
\* goes from the responder's hand to the discard pile, and no bank or
\* property card moves.
RefusalWithoutCounter ==
  [][(RefusalByTarget /\ ~HoldsRefusal(pendingAction.fromPlayerId)) =>
       /\ pendingAction' = Null
       /\ turnPhase' # "responding"
       /\ OneRefusalDiscarded(last'.by)]_vars

\* C8 happens: participant 1 has refused the debt collector of participant
\* 2, who held no refusal card, and the action is gone.
RefusalWithoutCounterSeen ==
  /\ last = Call("respondToAction", 1, "refuse", TRUE)
  /\ pendingAction = Null
  /\ ~HoldsRefusal(2)
  /\ Range(discardPile) \cap {"jsn1", "jsn3"} # {}
  /\ Range(players[1].bank) = {"m2"}

\* C9: at most three refusal cards are in hands; a response to a
\* single-target pending action that returns is one step of the chain: a
\* refusal takes exactly one refusal card out of the hands and either hands
\* the action over with the roles swapped or clears it, any other response
\* clears it; and when it is cleared the turn phase is no longer
\* 'responding'.
RefusalChainStep ==
  /\ [](RefusalsInHands <= 3)
  /\ [][(/\ Returned("respondToAction")
         /\ pendingAction # Null
         /\ ~pendingAction.multi) =>
          /\ last'.how = "refuse" =>
               /\ RefusalsInHands' = RefusalsInHands - 1
               /\ \/ pendingAction' = Null
                  \/ /\ pendingAction' =
                          [pendingAction EXCEPT
                             !.fromPlayerId = last'.by,
                             !.toPlayerId = pendingAction.fromPlayerId,
                             !.canSayNo = TRUE]
                     /\ turnPhase' = turnPhase
          /\ last'.how # "refuse" => pendingAction' = Null
          /\ pendingAction' = Null => turnPhase' # "responding"]_vars

\* C9 happens: a chain of three refusals has ended the debt collector.
RefusalChainEnded ==
  /\ last = Call("respondToAction", 1, "refuse", TRUE)
  /\ discardPile = <<"jsn1", "jsn2", "jsn3">>
  /\ pendingAction = Null
  /\ turnPhase = "action"

\* C10: a response to a broadcast pending action that returns clears the
\* action if with it every participant but the initiator has responded, and
\* otherwise leaves it pending with the turn phase 'responding'.
BroadcastResolution ==
  [][(/\ Returned("respondToAction")
      /\ pendingAction # Null
      /\ pendingAction.multi) =>
       IF \A q \in PlayerIds \ {pendingAction.fromPlayerId} :
            q \in Range(pendingAction.respondedPlayers) \cup {last'.by}
         THEN pendingAction' = Null
         ELSE pendingAction' # Null /\ turnPhase' = "responding"]_vars

\* C11: a drawCards call returns only for the current participant in turn
\* phase 'draw', a playCard call only for the current participant in
\* 'action' with a positive action budget, a discardCards call only for the
\* current participant in 'discard', and an endTurnEarly or
\* rearrangeProperty call only for the current participant in 'action' or
\* 'finishing', endTurnEarly only with no pending action.
TurnPhaseLegality ==
  [][/\ Returned("drawCards") =>
          last'.by = currentPlayerIndex + 1 /\ turnPhase = "draw"
     /\ Returned("playCard") =>
          /\ last'.by = currentPlayerIndex + 1
          /\ turnPhase = "action"
          /\ actionsRemaining > 0
     /\ Returned("discardCards") =>
          last'.by = currentPlayerIndex + 1 /\ turnPhase = "discard"
     /\ Returned("endTurnEarly") =>
          /\ last'.by = currentPlayerIndex + 1
          /\ turnPhase \in {"action", "finishing"}
          /\ pendingAction = Null
     /\ Returned("rearrangeProperty") =>
          /\ last'.by = currentPlayerIndex + 1
          /\ turnPhase \in {"action", "finishing"}]_vars

\* C11 happens: participant 1, in turn phase 'discard' with eight cards,
\* has discarded one and the turn has passed to participant 2.
TurnPhaseLegalitySeen ==
  /\ last = Call("discardCards", 1, "", TRUE)
  /\ Len(players[1].hand) = 7
  /\ Len(discardPile) = 2
  /\ currentPlayerIndex = 1
  /\ turnPhase = "draw"

\* C12: within one participant-turn at most 3 playCard calls return, and a
\* playCard call that throws does not raise the action budget.
TurnBudget ==
  /\ [](played <= 3)
  /\ [][(last'.op = "playCard" /\ ~last'.ok) =>
          actionsRemaining' <= actionsRemaining]_vars

\* The number of property cards, wildcards included, among cards.
PropertyCards(cards) ==
  Cardinality({i \in 1..Len(cards) : Card[cards[i]].type = "property"})

\* C13: the completeness flag of every property set is true exactly when
\* the set holds at least as many property cards (wildcards included,
\* house and hotel cards excluded) as its color requires.
CompletenessFlag ==
  \A p \in PlayerIds :
    \A i \in 1..Len(players[p].properties) :
      LET set == players[p].properties[i]
      IN set.isComplete <=>
           PropertyCards(set.cards) >= PROPERTY_SET_REQUIREMENTS(set.color)

\* C13 happens: participant 1 has laid a second brown card, b2, next to b1
\* and the brown set is complete.
CompletenessFlagSeen ==
  /\ last = Call("playCard", 1, "", TRUE)
  /\ \E i \in 1..Len(players[1].properties) :
       /\ players[1].properties[i].color = "brown"
       /\ players[1].properties[i].cards = <<"b1", "b2">>
       /\ players[1].properties[i].isComplete

\* C14: no participant holds two property sets of the same color.
OneSetPerColor ==
  \A p \in PlayerIds :
    \A i, j \in 1..Len(players[p].properties) :
      players[p].properties[i].color = players[p].properties[j].color => i = j

RECURSIVE Hands(_)
\* The hands of the participants pls, in a row.
Hands(pls) == IF pls = <<>> THEN <<>> ELSE Head(pls).hand \o Hands(Tail(pls))

\* C15: a startGame call with fewer than 2 or more than 5 participants
\* throws and changes nothing; any other returns and leaves every
\* participant with exactly 5 hand cards, an empty bank and no property
\* sets, the discard pile empty, every other card of the catalog in the draw
\* pile, phase 'playing', turn phase 'draw', current index 0 and action
\* budget 3.
StartGameContract ==
  [][last'.op = "startGame" =>
       IF Len(players) < 2 \/ Len(players) > 5
         THEN ~last'.ok /\ UNCHANGED gameVars
         ELSE /\ last'.ok
              /\ Len(players') = Len(players)
              /\ \A p \in PlayerIds :
                   /\ Len(players'[p].hand) = 5
                   /\ players'[p].bank = <<>>
                   /\ players'[p].properties = <<>>
              /\ discardPile' = <<>>
              /\ Len(deck') = Len(catalog) - 5 * Len(players)
              /\ \A i \in 1..Len(catalog) :
                   Occurrences(deck' \o Hands(players'), catalog[i]) =
                     Occurrences(catalog, catalog[i])
              /\ phase' = "playing"
              /\ turnPhase' = "draw"
              /\ currentPlayerIndex' = 0
              /\ actionsRemaining' = 3]_vars

\* C15 happens: a match of five participants has been started a second time
\* and 25 cards of the catalog are in hands again.
StartGameContractSeen ==
  /\ last = Call("startGame", 0, "", TRUE)
  /\ Len(players) = 5
  /\ starts = 2
  /\ Len(deck) = Len(catalog) - 25

\* The number of cards of createDeck() with the property Kind.
DeckCount(Kind(_)) ==
  Cardinality({i \in 1..Len(createDeck) : Kind(createDeck[i])})

\* C16: createDeck() holds exactly 110 cards: 28 plain properties, 11
\* wildcard properties, 20 money cards, 34 action cards and 13 rent cards;
\* a start with 3 participants leaves exactly 95 cards in the draw pile.
DeckComposition ==
  /\ Len(createDeck) = 110
  /\ DeckCount(LAMBDA c : c.type = "property" /\ ~c.isWildcard) = 28
  /\ DeckCount(LAMBDA c : c.type = "property" /\ c.isWildcard) = 11
  /\ DeckCount(LAMBDA c : c.type = "money") = 20
  /\ DeckCount(LAMBDA c : c.type = "action") = 34
  /\ DeckCount(LAMBDA c : c.type = "rent") = 13
  /\ (last = Call("startGame", 0, "", TRUE) /\ Len(players) = 3) =>
       Len(deck) = 95

\* The rent of a set with at least one property card: the entry of its
\* color's rent table at min(count, table length), counted from 1, plus 3
\* for a house and 4 for a hotel.
RentOf(set) ==
  LET table == RENT_VALUES(set.color)
      count == PropertyCards(set.cards)
  IN table[IF count < Len(table) THEN count ELSE Len(table)]
       + (IF set.hasHouse THEN 3 ELSE 0) + (IF set.hasHotel THEN 4 ELSE 0)

\* The number of double-rent cards in hand.
DoubleRents(hand) ==
  Cardinality({i \in 1..Len(hand) : Card[hand[i]].action = "doubleRent"})

\* C17: when a playCard call returns having set up a rent action, its amount
\* is the rent of a set of the caller in a color of the rent card, twice
\* that if the call took a double-rent card out of the caller's hand.
RentAmount ==
  [][(/\ Returned("playCard")
      /\ pendingAction = Null
      /\ pendingAction' # Null
      /\ pendingAction'.type = "rent") =>
       \E i \in 1..Len(players[last'.by].properties) :
         LET set == players[last'.by].properties[i]
             consumed == DoubleRents(players'[last'.by].hand)
                           < DoubleRents(players[last'.by].hand)
         IN /\ set.color \in Card[pendingAction'.card].colors
            /\ PropertyCards(set.cards) >= 1
            /\ pendingAction'.amount =
                 IF consumed THEN 2 * RentOf(set) ELSE RentOf(set)]_vars

\* C17 happens: participant 1 has charged the doubled rent of the full brown
\* set with house and hotel, (2 + 3 + 4) * 2.
RentAmountSeen ==
  /\ last = Call("playCard", 1, "", TRUE)
  /\ pendingAction # Null
  /\ pendingAction.type = "rent"
  /\ pendingAction.amount = 18
  /\ "dbl" \in Range(discardPile)
  /\ \E i \in 1..Len(players[1].properties) :
       /\ players[1].properties[i].color = "brown"
       /\ players[1].properties[i].isComplete
       /\ players[1].properties[i].hasHouse
       /\ players[1].properties[i].hasHotel

\* The state g with every card in the hands of participants other than v
\* replaced by the card c.
OtherHandsAll(g, v, c) ==
  [g EXCEPT !.players =
     [i \in 1..Len(g.players) |->
        IF i = v THEN g.players[i]
        ELSE [g.players[i] EXCEPT !.hand = [j \in 1..Len(@) |-> c]]]]

\* The state g with the hands of participants other than v in reverse order.
OtherHandsReversed(g, v) ==
  [g EXCEPT !.players =
     [i \in 1..Len(g.players) |->
        IF i = v THEN g.players[i]
        ELSE [g.players[i] EXCEPT !.hand =
                [j \in 1..Len(@) |-> @[Len(@) + 1 - j]]]]]

\* C18: the view emitted for a participant shows that participant's hand as
\* it is and every other hand as a list of the same length that holds none
\* of its cards; states that differ only in the cards of the other hands
\* give the same view; and the call leaves the game state unchanged.
PublicView ==
  /\ [](last.op = "getPublicGameState" =>
          /\ \A p \in PlayerIds :
               IF p = last.by
                 THEN view.players[p].hand = players[p].hand
                 ELSE /\ Len(view.players[p].hand) = Len(players[p].hand)
                      /\ Range(view.players[p].hand) \cap CardIds = {}
          /\ \A c \in Range(catalog) :
               getPublicGameState(OtherHandsAll(State, last.by, c), last.by)
                 = view
          /\ getPublicGameState(OtherHandsReversed(State, last.by), last.by)
               = view)
  /\ [][last'.op = "getPublicGameState" => UNCHANGED gameVars]_vars

\* C18 happens: the view for participant 1 has been emitted while both
\* participants held cards, and shows two hidden cards for participant 2.
PublicViewSeen ==
  /\ last = Call("getPublicGameState", 1, "", TRUE)
  /\ players[1].hand = <<"m2", "m3">>
  /\ players[2].hand = <<"db1", "wbl">>
  /\ view.players[1].hand = <<"m2", "m3">>
  /\ view.players[2].hand = <<Hidden, Hidden>>

\* C19: once the phase is 'finished' it stays 'finished', and no call
\* changes a hand, a bank, a property set, the draw pile, the discard pile
\* or the current index any more.
FinishedTerminal ==
  [][phase = "finished" =>
       /\ phase' = "finished"
       /\ players' = players
       /\ deck' = deck
       /\ discardPile' = discardPile
       /\ currentPlayerIndex' = currentPlayerIndex]_vars

\* C20: when the target of a single-target pending action refuses and the
\* initiator holds a refusal card, the pending action stays, with
\* fromPlayerId and toPlayerId swapped and its type, amount, target set and
\* card unchanged, the turn phase is 'responding' before and after, and the
\* only card that moves is the refusal card, from the responder's hand to
\* the discard pile.
RefusalCounterStep ==
  [][(RefusalByTarget /\ HoldsRefusal(pendingAction.fromPlayerId)) =>
       /\ pendingAction' # Null
       /\ pendingAction' = [pendingAction EXCEPT
                              !.fromPlayerId = pendingAction.toPlayerId,
                              !.toPlayerId = pendingAction.fromPlayerId,
                              !.canSayNo = TRUE]
       /\ turnPhase = "responding"
       /\ turnPhase' = "responding"
       /\ OneRefusalDiscarded(last'.by)]_vars

\* C21: whenever the pending action is cleared, the turn phase
\* becomes 'action' if the action budget is not used up, and otherwise
\* 'discard' if the current participant's hand has more than 7 cards and
\* 'finishing' if it has not.
PhaseAfterClearing ==
  [][(pendingAction # Null /\ pendingAction' = Null) =>
       turnPhase' =
         IF actionsRemaining' > 0 THEN "action"
         ELSE IF Len(players'[currentPlayerIndex' + 1].hand) > 7
           THEN "discard" ELSE "finishing"]_vars

\* C21 happens: the debt collector of participant 1 has been answered and
\* cleared while participant 1 holds eight cards and has two plays left,
\* and the turn phase is 'action'.
PhaseAfterClearingSeen ==
  /\ last.op = "respondToAction" /\ last.ok
  /\ pendingAction = Null
  /\ currentPlayerIndex = 0
  /\ Len(players[1].hand) = 8
  /\ actionsRemaining = 2
  /\ turnPhase = "action"

\* C21 as first stated: whenever the pending action is cleared, the turn
\* phase becomes 'discard' if the current participant's hand has more than
\* 7 cards, otherwise 'finishing' if the action budget is used up,
\* otherwise 'action'.
PhaseAfterClearingHandFirst ==
  [][(pendingAction # Null /\ pendingAction' = Null) =>
       turnPhase' =
         IF Len(players'[currentPlayerIndex' + 1].hand) > 7 THEN "discard"
         ELSE IF actionsRemaining' <= 0 THEN "finishing"
         ELSE "action"]_vars

\* C22: when a participant refuses a broadcast pending action, one refusal
\* card goes from its hand to the discard pile and no bank or property
\* card moves; if some participant other than the initiator has still not
\* responded, the pending action stays as it was (same initiator, same
\* amount, turn phase 'responding') with the refuser added to the
\* responded set and the others left out of it, and otherwise it is
\* cleared.
BroadcastRefusal ==
  [][(/\ Returned("respondToAction")
      /\ last'.how = "refuse"
      /\ pendingAction # Null
      /\ pendingAction.multi) =>
       /\ OneRefusalDiscarded(last'.by)
       /\ IF \A q \in PlayerIds \ {pendingAction.fromPlayerId} :
               q \in Range(pendingAction.respondedPlayers) \cup {last'.by}
            THEN pendingAction' = Null
            ELSE /\ pendingAction' =
                      [pendingAction EXCEPT
                         !.respondedPlayers = Append(@, last'.by)]
                 /\ turnPhase' = "responding"]_vars

\* C22 happens: participant 2 has refused the birthday card of participant
\* 1 and kept its bank, and the action is still due from participant 3.
BroadcastRefusalSeen ==
  /\ last = Call("respondToAction", 2, "refuse", TRUE)
  /\ pendingAction # Null
  /\ pendingAction.type = "birthday"
  /\ pendingAction.fromPlayerId = 1
  /\ pendingAction.amount = 2
  /\ pendingAction.respondedPlayers = <<2>>
  /\ players[2].bank = <<"m1b", "m1c", "m1d">>
  /\ "jsn1" \in Range(discardPile)

\* C23: a respondToAction call that is rejected leaves the whole game state
\* as it was: hands, banks, property sets, piles, the pending action with
\* its responded set, the phases, the budget and the current index.
RejectedResponseUnchanged ==
  [][(last'.op = "respondToAction" /\ ~last'.ok) => UNCHANGED gameVars]_vars

\* C23 happens: after participant 2 refused the birthday card of
\* participant 1, a response has been rejected (participant 2 answering
\* again, a refusal without a refusal card, or a payment below what is
\* due) and the action is still due from participant 3.
RejectedResponseSeen ==
  /\ last = Call("respondToAction", 0, "", FALSE)
  /\ pendingAction # Null
  /\ pendingAction.type = "birthday"
  /\ pendingAction.respondedPlayers = <<2>>
  /\ discardPile = <<"jsn1">>
  /\ players[3].properties = <<OpenSet("brown", <<"b1">>)>>

\* C24: a discardCards call that is rejected leaves the hands, the discard
\* pile, the turn phase and the current index as they were.
RejectedDiscardUnchanged ==
  [][(last'.op = "discardCards" /\ ~last'.ok) =>
       /\ \A p \in PlayerIds : players'[p].hand = players[p].hand
       /\ discardPile' = discardPile
       /\ turnPhase' = turnPhase
       /\ currentPlayerIndex' = currentPlayerIndex]_vars

\* The colors of the sets of participant pl that hold card c.
SetColorsOf(pl, c) ==
  {pl.properties[i].color :
     i \in {j \in 1..Len(pl.properties) : c \in Range(pl.properties[j].cards)}}

\* This step is an accepting response, that returned, to a pending action
\* with an amount due.
AcceptedPayment ==
  /\ Returned("respondToAction")
  /\ last'.how = "accept"
  /\ pendingAction # Null
  /\ pendingAction.amount # 0

\* In this step every card that participant p offered leaves p for
\* participant f: a bank card for the bank of f, a property card for the
\* set of f of the card's own color, any other card of a set for a holding
\* of f.
OfferedCardsMove(p, f) ==
  \A c \in Range(last'.paid) :
    /\ c \notin Range(players'[p].bank)
    /\ c \notin Range(Flatten(players'[p].properties))
    /\ IF c \in Range(players[p].bank)
         THEN c \in Range(players'[f].bank)
         ELSE IF Card[c].type = "property"
           THEN SetColorsOf(players'[f], c) = {Card[c].color}
           ELSE c \in Range(players'[f].bank)

\* In this step every card that was not offered is in the same hand, bank
\* or set color, and in the same pile, as before.
OtherCardsStay ==
  /\ \A q \in PlayerIds :
       /\ players'[q].hand = players[q].hand
       /\ \A c \in CardIds \ Range(last'.paid) :
            /\ c \in Range(players'[q].bank) <=> c \in Range(players[q].bank)
            /\ SetColorsOf(players'[q], c) = SetColorsOf(players[q], c)
  /\ deck' = deck
  /\ discardPile' = discardPile

\* C25: after an accepted payment every offered card has left the
\* responder and is held by the initiator, a bank card in the bank and a
\* property card in the initiator's set of the card's own color; every set
\* of the responder has its completeness recomputed and holds a card; and
\* the cards not offered are where they were.
PaymentTransfer ==
  [][AcceptedPayment =>
       /\ OfferedCardsMove(last'.by, pendingAction.fromPlayerId)
       /\ \A i \in 1..Len(players'[last'.by].properties) :
            LET set == players'[last'.by].properties[i]
            IN /\ set.cards # <<>>
               /\ set.isComplete <=>
                    PropertyCards(set.cards)
                      >= PROPERTY_SET_REQUIREMENTS(set.color)
       /\ OtherCardsStay]_vars

\* The sets of participant pl, as a set.
SetsOf(pl) == Range(pl.properties)

\* C26: a deal breaker becomes pending only against a set that its target
\* holds and that is complete; and when a response accepts it, the first
\* set of the target color that the target held, with all its cards and
\* its house and hotel flags, is a set of the initiator and no longer one
\* of the target.
StealCompleteSet ==
  /\ [][(Returned("playCard") /\ pendingAction' # Null
           /\ pendingAction'.type = "dealBreaker") =>
          LET sets == players[pendingAction'.toPlayerId].properties
              k == SetIndex(sets, pendingAction'.targetSet)
          IN k # 0 /\ sets[k].isComplete]_vars
  /\ [][(/\ Returned("respondToAction")
         /\ last'.how = "accept"
         /\ pendingAction # Null
         /\ pendingAction.type = "dealBreaker") =>
          LET t == pendingAction.toPlayerId
              f == pendingAction.fromPlayerId
              sets == players[t].properties
              k == SetIndex(sets, pendingAction.targetSet)
          IN /\ k # 0
             /\ sets[k] \in SetsOf(players'[f])
             /\ sets[k] \notin SetsOf(players'[t])]_vars

\* In this step card c goes from the set of color col of participant t to
\* the set of color col of participant f, and no other card changes its
\* hand, bank, set color or pile.
OneCardMoves(c, col, t, f) ==
  /\ SetColorsOf(players[t], c) = {col}
  /\ SetColorsOf(players'[t], c) = {}
  /\ SetColorsOf(players'[f], c) = {col}
  /\ \A q \in PlayerIds :
       /\ players'[q].hand = players[q].hand
       /\ players'[q].bank = players[q].bank
       /\ \A x \in CardIds \ {c} :
            SetColorsOf(players'[q], x) = SetColorsOf(players[q], x)
  /\ deck' = deck
  /\ discardPile' = discardPile

\* C27: when a response accepts a sly deal, the card that the responder
\* named goes from the responder's set of the target color to the
\* initiator's set of that color, and no other card moves.
StealOneProperty ==
  [][(/\ Returned("respondToAction")
      /\ last'.how = "accept"
      /\ pendingAction # Null
      /\ pendingAction.type = "slyDeal") =>
       OneCardMoves(last'.selected, pendingAction.targetSet, last'.by,
                    pendingAction.fromPlayerId)]_vars

\* In this step some card goes from the set of color col of participant t
\* to a set of participant f.
SomeCardTaken(col, t, f) ==
  \E c \in CardIds :
    /\ col \in SetColorsOf(players[t], c)
    /\ SetColorsOf(players'[t], c) = {}
    /\ SetColorsOf(players[f], c) = {}
    /\ SetColorsOf(players'[f], c) # {}

\* C28: when an accepted forced deal takes a card from the responder's
\* target set for the initiator, the card that the initiator named goes
\* from the initiator's named set to a set of the responder.
SwapBothWays ==
  [][(/\ Returned("respondToAction")
      /\ last'.how = "accept"
      /\ pendingAction # Null
      /\ pendingAction.type = "forcedDeal"
      /\ SomeCardTaken(pendingAction.targetSet, last'.by,
                       pendingAction.fromPlayerId)) =>
       LET give == pendingAction.giveCardId
           f == pendingAction.fromPlayerId
       IN /\ pendingAction.giveFromSet \in SetColorsOf(players[f], give)
          /\ SetColorsOf(players'[f], give) = {}
          /\ SetColorsOf(players'[last'.by], give) # {}]_vars

\* How many cards of the sequence cards are action cards of kind action.
ActionCards(cards, action) ==
  Cardinality({i \in 1..Len(cards) : Card[cards[i]].action = action})

\* In this step a card of kind action goes from the caller's hand into a
\* set that holds the cards after of some participant, and before is what
\* the caller's set of that color was before (none: no such set).
Modified(action, q, i, before) ==
  LET p == last'.by
      after == players'[q].properties[i]
      sets == players[p].properties
      k == SetIndex(sets, after.color)
  IN /\ \E c \in Range(players[p].hand) :
          /\ Card[c].action = action
          /\ c \in Range(after.cards)
          /\ c \notin Range(players'[p].hand)
     /\ before = IF q = p /\ k # 0 THEN sets[k] ELSE NewSet("none")

\* C29: a house goes from a hand only into a set of the player that was
\* complete and had no house, a hotel only into a set of the player that
\* was complete and had a house and no hotel; and in every state a set
\* with a hotel has a house, and no set holds two house cards or two hotel
\* cards.
Modifiers ==
  /\ [][Returned("playCard") =>
          \A q \in PlayerIds :
            \A i \in 1..Len(players'[q].properties) :
              \A before \in
                  {NewSet("none")} \cup SetsOf(players[last'.by]) :
                /\ Modified("house", q, i, before) =>
                     /\ before.isComplete
                     /\ ~before.hasHouse
                /\ Modified("hotel", q, i, before) =>
                     /\ before.isComplete
                     /\ before.hasHouse
                     /\ ~before.hasHotel]_vars
  /\ [](\A p \in PlayerIds :
          \A i \in 1..Len(players[p].properties) :
            LET set == players[p].properties[i]
            IN /\ set.hasHotel => set.hasHouse
               /\ ActionCards(set.cards, "house") <= 1
               /\ ActionCards(set.cards, "hotel") <= 1)

\* C29 happens: participant 1 has laid a house and then the hotel on its
\* complete brown set and still holds the second house.
ModifiersSeen ==
  /\ last = Call("playCard", 1, "", TRUE)
  /\ Len(players[1].properties) = 1
  /\ players[1].properties[1].hasHouse
  /\ players[1].properties[1].hasHotel
  /\ ActionCards(players[1].properties[1].cards, "house") = 1
  /\ ActionCards(players[1].properties[1].cards, "hotel") = 1
  /\ ActionCards(players[1].hand, "house") = 1

\* C30: in every state each wildcard that lies in a property set lies in a
\* set whose color is one of the wildcard's colors (so no playCard and no
\* rearrangeProperty has laid one under another color).
WildcardLegality ==
  \A p \in PlayerIds :
    \A i \in 1..Len(players[p].properties) :
      \A c \in Range(players[p].properties[i].cards) :
        Card[c].isWildcard =>
          players[p].properties[i].color \in Card[c].wildcardColors

\* C30 happens: participant 1 has laid the dark blue card and the
\* brown/light blue wildcard and has moved the wildcard to the other of
\* its two colors.
WildcardLegalitySeen ==
  /\ last = Call("rearrangeProperty", 1, "", TRUE)
  /\ SetColorsOf(players[1], "d1") = {"darkBlue"}
  /\ SetColorsOf(players[1], "wbl") = {"lightBlue"}
  /\ played = 2

\* Participant p's wildcard c went from p's set of color from to p's set
\* of color to; every other card of p lies where it lay; every set of p
\* holds a card and has its isComplete flag recomputed.
Relocated(p, c, from, to) ==
  /\ Card[c].type = "property" /\ Card[c].isWildcard
  /\ from \in SetColorsOf(players[p], c)
  /\ SetColorsOf(players'[p], c) = {to}
  /\ \A d \in CardIds \ {c} :
       SetColorsOf(players'[p], d) = SetColorsOf(players[p], d)
  /\ \A s \in SetsOf(players'[p]) :
       /\ Len(s.cards) > 0
       /\ s.isComplete <=>
            PropertyCount(s.cards) >= PROPERTY_SET_REQUIREMENTS(s.color)
  /\ from # to =>
       \/ \E s \in SetsOf(players'[p]) :
            s.color = from /\ c \notin Range(s.cards)
       \/ \A s \in SetsOf(players'[p]) : s.color # from

\* Nothing but the sets of participant p changed: hands, banks, piles, the
\* other participants' sets, the action budget and the current index.
OnlySetsOf(p) ==
  /\ \A q \in PlayerIds :
       /\ players'[q].hand = players[q].hand
       /\ players'[q].bank = players[q].bank
       /\ q # p => players'[q].properties = players[q].properties
  /\ Len(players') = Len(players)
  /\ deck' = deck
  /\ discardPile' = discardPile
  /\ actionsRemaining' = actionsRemaining
  /\ currentPlayerIndex' = currentPlayerIndex

\* C31: a rearrangeProperty that returned moved exactly one wildcard of its
\* caller from one of the caller's sets to the caller's set of a color
\* (created if absent), recomputed isComplete, removed a source set left
\* with no card, and left hands, banks, piles, the others' sets, the action
\* budget and the current index unchanged; and no rearrangeProperty naming a
\* card that is not a wildcard returns.
WildcardRelocation ==
  /\ [][Returned("rearrangeProperty") =>
          /\ OnlySetsOf(last'.by)
          /\ \E c \in SetCards(last'.by) :
               \E from \in InputColors, to \in InputColors :
                 Relocated(last'.by, c, from, to)]_vars
  /\ [](\A p \in PlayerIds :
          \A c \in SetCards(p) :
            ~Card[c].isWildcard =>
              \A from \in ColorOrNone, to \in InputColors :
                ~rearrangeProperty(State, p, c, from, to).ok)

\* C31 happens: participant 1, holding the dark blue card in a set, moved
\* the wildcard out of a set that held nothing else, into a new set.
WildcardRelocationSeen ==
  /\ last = Call("rearrangeProperty", 1, "", TRUE)
  /\ SetColorsOf(players[1], "wbl") = {"brown"}
  /\ SetColorsOf(players[1], "d1") = {"darkBlue"}
  /\ Len(players[1].properties) = 2

\* The cards of sequence s from its end down to position i, in that order.
RECURSIVE FromTop(_, _)
FromTop(s, i) ==
  IF i > Len(s) THEN <<>> ELSE Append(FromTop(s, i + 1), s[i])

\* Participant p drew n cards, or all the cards of the two piles if they
\* hold fewer: from the top of the draw pile, and once that is empty from
\* the discard pile, all of which became the draw pile.
Drew(p, n) ==
  LET hand == players[p].hand
      k == Min(n, Len(deck) + Len(discardPile))
      drawn == SubSeq(players'[p].hand, Len(hand) + 1, Len(players'[p].hand))
  IN /\ Len(players'[p].hand) = Len(hand) + k
     /\ SubSeq(players'[p].hand, 1, Len(hand)) = hand
     /\ IF Len(deck) >= n
          THEN /\ drawn = FromTop(deck, Len(deck) - n + 1)
               /\ deck' = SubSeq(deck, 1, Len(deck) - n)
               /\ discardPile' = discardPile
          ELSE /\ SubSeq(drawn, 1, Len(deck)) = FromTop(deck, 1)
               /\ discardPile' = <<>>
               /\ Len(deck') = Len(deck) + Len(discardPile) - k
               /\ Range(deck') \cup Range(SubSeq(drawn, Len(deck) + 1, k))
                    = Range(discardPile)

\* C32: a drawCards that returned moved into its caller's hand 5 cards if
\* the hand was empty and 2 otherwise, from the draw pile, into which the
\* discard pile was shuffled when the draw pile was empty; fewer only when
\* both piles were exhausted; the turn phase became 'action'; nothing else
\* changed.
DrawContract ==
  [][Returned("drawCards") =>
       /\ Drew(last'.by, IF Len(players[last'.by].hand) = 0 THEN 5 ELSE 2)
       /\ turnPhase' = "action"
       /\ \A q \in PlayerIds :
            /\ players'[q].bank = players[q].bank
            /\ players'[q].properties = players[q].properties
            /\ q # last'.by => players'[q].hand = players[q].hand
       /\ UNCHANGED <<currentPlayerIndex, actionsRemaining, pendingAction,
                      phase, winner>>]_vars

\* C32 happens: participant 2 drew five cards into its empty hand, the
\* three of the draw pile and the two that participant 1 had discarded.
DrawContractSeen ==
  /\ last = Call("drawCards", 2, "", TRUE)
  /\ Len(players[2].hand) = 5
  /\ SubSeq(players[2].hand, 1, 3) = <<"m3b", "m2c", "m2b">>
  /\ Len(players[1].hand) = 7
  /\ deck = <<>> /\ discardPile = <<>>

\* C33: a respondToAction that returned was called by the participant whom
\* the pending action names as its target or, for a broadcast action, by a
\* participant other than its initiator.
DesignatedResponder ==
  [][(Returned("respondToAction") /\ pendingAction # Null) =>
       IF pendingAction.multi
         THEN last'.by # pendingAction.fromPlayerId
         ELSE last'.by = pendingAction.toPlayerId]_vars

\* The cards in the bank and in the sets of participant pl.
Assets(pl) == Range(pl.bank) \cup Range(Flatten(pl.properties))

\* C34: a respondToAction by the participant whose turn it is, who played
\* the action card, hands none of that participant's bank or property cards
\* to another participant.
NeverInReverse ==
  [][(Returned("respondToAction") /\ pendingAction # Null
        /\ last'.by = currentPlayerIndex + 1) =>
       \A q \in PlayerIds \ {last'.by} :
         Assets(players'[q]) \cap Assets(players[last'.by]) = {}]_vars

\* C35: the action budget always lies between 0 and 3.
BudgetRange == actionsRemaining \in 0..3

\* C36: every property card that is not a wildcard and lies in a property
\* set lies in a set of its own color.
PlainCardColor ==
  \A p \in PlayerIds :
    \A i \in 1..Len(players[p].properties) :
      \A c \in Range(players[p].properties[i].cards) :
        (Card[c].type = "property" /\ ~Card[c].isWildcard) =>
          players[p].properties[i].color = Card[c].color

\* C37: every property set whose hasHouse flag is set is complete and holds
\* a house card, and every set whose hasHotel flag is set is complete and
\* holds a hotel card.
ModifiedSetsComplete ==
  \A p \in PlayerIds :
    \A i \in 1..Len(players[p].properties) :
      LET set == players[p].properties[i]
      IN /\ set.hasHouse =>
              set.isComplete /\ ActionCards(set.cards, "house") >= 1
         /\ set.hasHotel =>
              set.isComplete /\ ActionCards(set.cards, "hotel") >= 1

\* Participant p discarded down to seven cards: the cards that left the
\* hand, as many as it held above seven, are the ones added to the discard
\* pile.
DiscardedToSeven(p) ==
  /\ Len(players'[p].hand) = 7
  /\ Range(players'[p].hand) \subseteq Range(players[p].hand)
  /\ Len(discardPile') = Len(discardPile) + Len(players[p].hand) - 7
  /\ SubSeq(discardPile', 1, Len(discardPile)) = discardPile
  /\ Range(discardPile') =
       Range(discardPile) \cup
         (Range(players[p].hand) \ Range(players'[p].hand))

\* C38: when the current index moves on, the outgoing participant holds at
\* most 7 cards; a discardCards that returned took exactly the cards above
\* seven out of the hand; an endTurnEarly that returned with more than 7
\* cards in hand set the turn phase to 'discard' and kept the index.
HandLimit ==
  [][/\ currentPlayerIndex' # currentPlayerIndex =>
          Len(players'[currentPlayerIndex + 1].hand) <= 7
     /\ Returned("discardCards") => DiscardedToSeven(last'.by)
     /\ (Returned("endTurnEarly") /\ Len(players[last'.by].hand) > 7) =>
          /\ turnPhase' = "discard"
          /\ currentPlayerIndex' = currentPlayerIndex
          /\ players' = players]_vars

\* C38 happens: participant 1, sent to discard with eight cards, has
\* discarded one and the turn has passed to participant 2.
HandLimitSeen ==
  /\ last = Call("discardCards", 1, "", TRUE)
  /\ currentPlayerIndex = 1
  /\ Len(players[1].hand) = 7
  /\ Len(discardPile) = 1
  /\ turnPhase = "draw"

\* Participant p still has to answer the pending action: its target, or for
\* a broadcast action a participant other than the initiator who has not
\* responded.
HasToAnswer(p) ==
  /\ pendingAction # Null
  /\ IF pendingAction.multi
       THEN /\ p # pendingAction.fromPlayerId
            /\ p \notin Range(pendingAction.respondedPlayers)
       ELSE p = pendingAction.toPlayerId

\* Some call by the current participant returns: drawCards, endTurnEarly,
\* playCard, or discardCards naming the first cards of the hand above seven.
CurrentCanMove ==
  LET p == currentPlayerIndex + 1
      hand == players[p].hand
  IN \/ \E r \in drawCards(State, p) : r.ok
     \/ endTurnEarly(State, p).ok
     \/ discardCards(State, p, SubSeq(hand, 1, Len(hand) - 7)).ok
     \/ \E c \in Range(hand) :
          \E t \in Targets(p, c) :
            \E r \in playCard(State, p, c, t) : r.ok

\* C39: while the match is being played some call returns: when an action
\* is pending, a response by a participant who still has to answer it, and
\* otherwise a call by the current participant; and the turn phase is
\* 'discard' only with more than 7 cards in the current participant's hand.
NoDeadlock ==
  phase = "playing" =>
    /\ IF pendingAction # Null
         THEN \E p \in PlayerIds :
                /\ HasToAnswer(p)
                /\ \E response \in Responses(p) :
                     respondToAction(State, p, response).ok
         ELSE CurrentCanMove
    /\ turnPhase = "discard" =>
         Len(players[currentPlayerIndex + 1].hand) > 7

\* C39 happens: the third card that participant 1 played was the birthday
\* card and participant 2 has answered it, so that the budget is used up
\* with six cards in hand and participant 1 can end the turn.
NoDeadlockSeen ==
  /\ last.op = "respondToAction" /\ last.ok /\ last.by = 2
  /\ phase = "playing"
  /\ pendingAction = Null
  /\ actionsRemaining = 0
  /\ turnPhase = "finishing"
  /\ currentPlayerIndex = 0
  /\ Len(players[1].hand) = 6
  /\ "bday" \notin Range(players[1].hand)

\* The GameState object g up to the order of the cards in piles, hands,
\* banks and sets, of the sets of a participant, and of the participants
\* who have responded.
UpToOrder(g) ==
  [owners |->
     [p \in 1..Len(g.players) |->
        [hand |-> Range(g.players[p].hand),
         bank |-> Range(g.players[p].bank),
         sets |-> {[set EXCEPT !.cards = Range(@)] :
                     set \in Range(g.players[p].properties)}]],
   deck |-> Range(g.deck),
   discardPile |-> Range(g.discardPile),
   pendingAction |->
     IF g.pendingAction = Null THEN Null
     ELSE [g.pendingAction EXCEPT !.respondedPlayers = Range(@)],
   rest |-> <<g.currentPlayerIndex, g.phase, g.turnPhase,
              g.actionsRemaining, g.winner>>]

\* The responses ra of participant a and then rb of participant b to the
\* pending action of g.
ThenRespond(g, a, ra, b, rb) ==
  respondToAction(respondToAction(g, a, ra).g, b, rb)

\* C40: when a broadcast action is pending and two participants other than
\* its initiator each have a response that would return, the two responses
\* return in either order and leave the same state up to order.
BroadcastOrder ==
  (pendingAction # Null /\ pendingAction.multi) =>
    \A a \in PlayerIds, b \in PlayerIds :
      (a # b /\ HasToAnswer(a) /\ HasToAnswer(b)) =>
        \A ra \in Responses(a), rb \in Responses(b) :
          (respondToAction(State, a, ra).ok
             /\ respondToAction(State, b, rb).ok) =>
            /\ ThenRespond(State, a, ra, b, rb).ok
            /\ ThenRespond(State, b, rb, a, ra).ok
            /\ UpToOrder(ThenRespond(State, a, ra, b, rb).g)
                 = UpToOrder(ThenRespond(State, b, rb, a, ra).g)

\* C40 happens: participant 3 has paid the birthday card with its brown
\* card and then participant 2 has refused, which ends the action.
BroadcastOrderSeen ==
  /\ last = Call("respondToAction", 2, "refuse", TRUE)
  /\ pendingAction = Null
  /\ discardPile = <<"jsn1">>
  /\ SetColorsOf(players[1], "b1") = {"brown"}
  /\ players[3].properties = <<>>
  /\ turnPhase = "action"

====
